---- MODULE Spec2Model ----
(***************************************************************************)
(* Model of the tomochan dictionary package format:                        *)
(*   - the record store (format/store.rs),                                 *)
(*   - the unified FST index (format/index.rs),                            *)
(*   - the package builder (format/builder.rs),                            *)
(*   - the container envelope (format/container.rs) and the role loaders   *)
(*     (format/dictionary.rs, format/deinflector.rs).                      *)
(* Bytes are integers 0..255; byte strings are sequences of bytes.         *)
(***************************************************************************)
EXTENDS Integers, Sequences, FiniteSets, TLC

(***************************************************************************)
(* Bounds of the model.                                                    *)
(***************************************************************************)
\* total number of items imported by ordinary import_dictionary calls
MaxItems == 3
\* longest item vector of one kind handed to one import_dictionary call
MaxBatch == 2
\* largest store offset handed to a record fetch
MaxGetOffset == 6
\* length of the one long vector of same-key items (a heavily duplicated key)
RunLen == 257
\* number of indexes united by one union_unique_term_count
MaxIndexes == 2

(***************************************************************************)
(* Generic helpers on byte strings.                                        *)
(***************************************************************************)
Range(s) == {s[i] : i \in 1..Len(s)}

\* a let binding: Body applied to the value of v, which is computed once
With(v, Body(_)) == CHOOSE y \in {Body(r) : r \in {v}} : TRUE

\* Vec<u8> / [u8] ordering (Ord for slices): lexicographic, a proper prefix
\* is smaller.
RECURSIVE LexLessFrom(_, _, _)
LexLessFrom(a, b, i) ==
    IF i > Len(b) THEN FALSE
    ELSE IF i > Len(a) THEN TRUE
    ELSE IF a[i] < b[i] THEN TRUE
    ELSE IF a[i] > b[i] THEN FALSE
    ELSE LexLessFrom(a, b, i + 1)

LexLess(a, b) == LexLessFrom(a, b, 1)

\* u64::to_le_bytes: 8 bytes, least significant first.
\* (256^k is only evaluated for the k that fit the checker's integers.)
to_le_bytes(n) ==
    [i \in 1..8 |-> IF i <= 4 THEN (n \div (256 ^ (i - 1))) % 256 ELSE 0]

(***************************************************************************)
(* bincode (config::standard): variable-length integers, length-prefixed   *)
(* byte strings.                                                           *)
(***************************************************************************)
EncodeVarint(n) ==
    IF n < 251 THEN <<n>>
    ELSE <<251, n % 256, (n \div 256) % 256>>

\* a value that is larger than every length and offset of the model: the
\* decoded value of a varint that does not fit the checker's integers
Huge == 16777216

\* the value of the n little-endian bytes of d from position p on
LeValue(d, p, n) ==
    IF \A i \in 2..(n - 1) : d[p + i] = 0
    THEN d[p] + 256 * d[p + 1]
    ELSE Huge

\* decode one varint (u64, usize) of bytes d at 1-based position p: a byte
\* below 251 is the value, 251, 252 and 253 announce 2, 4 and 8 bytes.  le
\* is the exact value, as its 8 little-endian bytes
DecodeVarint(d, p) ==
    IF p < 1 \/ p > Len(d) THEN [ok |-> FALSE, val |-> 0, pos |-> 0, le |-> <<>>]
    ELSE IF d[p] < 251
    THEN [ok |-> TRUE, val |-> d[p], pos |-> p + 1,
          le |-> [i \in 1..8 |-> IF i = 1 THEN d[p] ELSE 0]]
    ELSE IF d[p] > 253 THEN [ok |-> FALSE, val |-> 0, pos |-> 0, le |-> <<>>]
    ELSE LET n == IF d[p] = 251 THEN 2 ELSE IF d[p] = 252 THEN 4 ELSE 8 IN
         IF p + n > Len(d) THEN [ok |-> FALSE, val |-> 0, pos |-> 0, le |-> <<>>]
         ELSE [ok |-> TRUE, val |-> LeValue(d, p + 1, n), pos |-> p + 1 + n,
               le |-> [i \in 1..8 |-> IF i <= n THEN d[p + i] ELSE 0]]

\* a + b on u64, both given by their 8 little-endian bytes, from the i-th
\* byte on with a carry: the wrapped sum and whether it overflowed
RECURSIVE overflowing_add(_, _, _, _)
overflowing_add(a, b, i, carry) ==
    IF i > 8 THEN [le |-> <<>>, overflow |-> carry = 1]
    ELSE With(overflowing_add(a, b, i + 1, (a[i] + b[i] + carry) \div 256), LAMBDA rest :
         [le |-> <<(a[i] + b[i] + carry) % 256>> \o rest.le, overflow |-> rest.overflow])

EncodeBytes(b) == EncodeVarint(Len(b)) \o b

DecodeBytes(d, p) ==
    LET n == DecodeVarint(d, p) IN
    IF ~n.ok THEN [ok |-> FALSE, val |-> <<>>, pos |-> 0]
    ELSE IF n.pos + n.val - 1 > Len(d) THEN [ok |-> FALSE, val |-> <<>>, pos |-> 0]
    ELSE [ok |-> TRUE, val |-> SubSeq(d, n.pos, n.pos + n.val - 1), pos |-> n.pos + n.val]

(***************************************************************************)
(* Records.  An item is a typed record with its lookup key and the rest of *)
(* its fields (body); its encoding is the bincode of the two fields.       *)
(***************************************************************************)
KeyStrings == {<<>>, <<97>>, <<97, 98>>}
Bodies == {<<>>, <<7>>}
Items == {it \in [key : KeyStrings, body : Bodies] : it.body = <<>> \/ it.key = <<97>>}

encode_to_vec(item) == EncodeBytes(item.key) \o EncodeBytes(item.body)

\* decode one item from the uncompressed stream d at 0-based offset off
decode_from_std_read(d, off) ==
    LET k == DecodeBytes(d, off + 1) IN
    IF ~k.ok THEN [ok |-> FALSE, item |-> [key |-> <<>>, body |-> <<>>], pos |-> off]
    ELSE LET b == DecodeBytes(d, k.pos) IN
         IF ~b.ok THEN [ok |-> FALSE, item |-> [key |-> <<>>, body |-> <<>>], pos |-> off]
         ELSE [ok |-> TRUE, item |-> [key |-> k.val, body |-> b.val], pos |-> b.pos - 1]

(***************************************************************************)
(* DataType (format/types.rs).                                             *)
(***************************************************************************)
Term == 0
Kanji == 1
Tag == 2
TermMeta == 3
KanjiMeta == 4
ExtraFile == 5
DataType == {Term, Kanji, Tag, TermMeta, KanjiMeta, ExtraFile}

as_byte(data_type) == data_type

(***************************************************************************)
(* Record store builder (format/store.rs).                                 *)
(***************************************************************************)
UnifiedStoreBuilder_new == [buffer |-> <<>>, current_offset |-> 0]

\* faulty variant: the offset after the append is returned
insert_PostAppend(sb, item) ==
    LET serialized == encode_to_vec(item) IN
    [sb |-> [buffer |-> sb.buffer \o serialized,
             current_offset |-> sb.current_offset + Len(serialized)],
     offset |-> sb.current_offset + Len(serialized)]

\* faulty variant: the running offset is advanced by one per record
insert_CountRecords(sb, item) ==
    LET serialized == encode_to_vec(item) IN
    [sb |-> [buffer |-> sb.buffer \o serialized,
             current_offset |-> sb.current_offset + 1],
     offset |-> sb.current_offset]

\* UnifiedStoreBuilder::insert: the new builder and the returned offset
insert(sb, item) ==
    LET serialized == encode_to_vec(item)
        offset == sb.current_offset
        len == Len(serialized)
    IN [sb |-> [buffer |-> sb.buffer \o serialized,
                current_offset |-> sb.current_offset + len],
        offset |-> offset]

\* UnifiedStoreBuilder::finalize.  The seekable-zstd blob is represented by
\* the uncompressed stream it decodes to and by whether the encoder was
\* finished (frames flushed and seek table written).  fail names the call
\* of the compressor that fails: "none", "create", "write" or "finish".
finalize(sb, fail) ==
    IF fail = "create" \/ fail = "write"
    THEN [ok |-> FALSE, blob |-> [stream |-> <<>>, finished |-> FALSE]]
    ELSE IF fail = "finish"
    THEN [ok |-> TRUE, blob |-> [stream |-> <<>>, finished |-> FALSE]]
    ELSE [ok |-> TRUE, blob |-> [stream |-> sb.buffer, finished |-> TRUE]]

(***************************************************************************)
(* Record store reader (format/store.rs).                                  *)
(***************************************************************************)
\* UnifiedStore::new: Decoder::new needs the seek table of a finished blob
UnifiedStore_new(blob) ==
    IF blob.finished
    THEN [ok |-> TRUE, store |-> [stream |-> blob.stream, pos |-> 0]]
    ELSE [ok |-> FALSE, store |-> [stream |-> <<>>, pos |-> 0]]

\* faulty variant: the decoder is not seeked, the record is decoded at the
\* position the previous call left the decoder at
get_NoSeek(store, offset) ==
    LET r == decode_from_std_read(store.stream, store.pos) IN
    [ok |-> r.ok, item |-> r.item,
     store |-> [store EXCEPT !.pos = IF r.ok THEN r.pos ELSE Len(store.stream)]]

\* faulty variant: a decoder that has reached the end of the stream stays
\* there, and every later call fails
get_StuckAtEnd(store, offset) ==
    IF offset > Len(store.stream) \/ (store.pos = Len(store.stream) /\ store.pos > 0)
    THEN [ok |-> FALSE, item |-> [key |-> <<>>, body |-> <<>>],
          store |-> store]
    ELSE LET r == decode_from_std_read(store.stream, offset) IN
         [ok |-> r.ok, item |-> r.item,
          store |-> [store EXCEPT !.pos = IF r.ok THEN r.pos ELSE Len(store.stream)]]

\* UnifiedStore::get: seek the decoder, decode one record
get(store, offset) ==
    IF offset > Len(store.stream)
    THEN [ok |-> FALSE, item |-> [key |-> <<>>, body |-> <<>>],
          store |-> store]
    ELSE LET r == decode_from_std_read(store.stream, offset) IN
         [ok |-> r.ok, item |-> r.item,
          store |-> [store EXCEPT !.pos = IF r.ok THEN r.pos ELSE Len(store.stream)]]

(***************************************************************************)
(* Unified FST index (format/index.rs).  The FST map is the sequence of    *)
(* its (key, value) entries in ascending key order, which is the order its *)
(* range streams yield them in.                                            *)
(***************************************************************************)
make_composite_key(data_type, key, index) ==
    <<as_byte(data_type)>> \o key \o <<0>> \o to_le_bytes(index)

\* position of the first 0 byte of b at or after i, or Len(b) + 1
RECURSIVE position_zero(_, _)
position_zero(b, i) ==
    IF i > Len(b) THEN Len(b) + 1
    ELSE IF b[i] = 0 THEN i
    ELSE position_zero(b, i + 1)

\* keys are &str contents built from ASCII here, so from_utf8 succeeds
extract_key_from_composite(key) ==
    IF key = <<>> THEN <<>>
    ELSE LET key_bytes == SubSeq(key, 2, Len(key))
             pos == position_zero(key_bytes, 1)
         IN SubSeq(key_bytes, 1, pos - 1)

\* the order in which the HashMaps of the builder are iterated; the sort in
\* build makes the result independent of it
KeyIterationOrder == <<(<<97, 98>>), (<<>>), (<<97>>)>>
DataTypeOrder == <<Term, Kanji, Tag, TermMeta, KanjiMeta, ExtraFile>>

\* faulty variant: the repetition index is stored as the value of the entry
EntriesOfKey_IndexAsValue(data_type, key, ids) ==
    [i \in 1..Len(ids) |->
        [key |-> make_composite_key(data_type, key, i - 1), value |-> i - 1]]

EntriesOfKey(data_type, key, ids) ==
    [i \in 1..Len(ids) |->
        [key |-> make_composite_key(data_type, key, i - 1), value |-> ids[i]]]

RECURSIVE EntriesOfMap(_, _, _)
EntriesOfMap(data_type, key_to_ids, j) ==
    IF j > Len(KeyIterationOrder) THEN <<>>
    ELSE EntriesOfKey(data_type, KeyIterationOrder[j], key_to_ids[KeyIterationOrder[j]])
         \o EntriesOfMap(data_type, key_to_ids, j + 1)

RECURSIVE AllEntries(_, _)
AllEntries(typed_mappings, t) ==
    IF t > Len(DataTypeOrder) THEN <<>>
    ELSE EntriesOfMap(DataTypeOrder[t], typed_mappings[DataTypeOrder[t]], 1)
         \o AllEntries(typed_mappings, t + 1)

StrictlyIncreasing(entries) ==
    \A i \in 1..(Len(entries) - 1) : LexLess(entries[i].key, entries[i + 1].key)

\* UnifiedFstIndex::build: collect, sort by composite key, insert into the
\* FST builder (which refuses keys that are not strictly increasing)
build(typed_mappings) ==
    LET all_entries == SortSeq(AllEntries(typed_mappings, 1),
                               LAMBDA a, b : LexLess(a.key, b.key))
    IN IF StrictlyIncreasing(all_entries)
       THEN [ok |-> TRUE, fst_map |-> all_entries]
       ELSE [ok |-> FALSE, fst_map |-> <<>>]

\* index of the first entry whose key is >= bound (range().ge(bound)),
\* Len(fst_map) + 1 when there is none; the entries are in ascending order
range_ge(fst_map, bound) ==
    Cardinality({i \in 1..Len(fst_map) : LexLess(fst_map[i].key, bound)}) + 1

\* faulty variant: the kind byte of the streamed entries is not compared
lookup_matches_AnyKind(composite_key, data_type, key) ==
    /\ composite_key # <<>>
    /\ extract_key_from_composite(composite_key) = key

\* the loop of lookup goes on (and pushes the value) at this entry: neither
\* of its two breaks is taken
lookup_matches(composite_key, data_type, key) ==
    /\ ~(composite_key = <<>> \/ composite_key[1] # as_byte(data_type))
    /\ extract_key_from_composite(composite_key) = key

\* the first entry among lo..hi at which the loop of lookup breaks, hi + 1
\* when it breaks at none of them
RECURSIVE lookup_stop(_, _, _, _, _)
lookup_stop(fst_map, data_type, key, lo, hi) ==
    IF lo > hi THEN lo
    ELSE IF lo = hi
    THEN IF lookup_matches(fst_map[lo].key, data_type, key) THEN hi + 1 ELSE lo
    ELSE LET mid == (lo + hi) \div 2
             l == lookup_stop(fst_map, data_type, key, lo, mid)
         IN IF l <= mid THEN l
            ELSE lookup_stop(fst_map, data_type, key, mid + 1, hi)

\* UnifiedFstIndex::lookup: stream from the first entry >= prefix, push the
\* values up to the first entry at which the loop breaks
lookup(fst_map, data_type, key) ==
    LET prefix == <<as_byte(data_type)>> \o key \o <<0>>
        start == range_ge(fst_map, prefix)
        stop == lookup_stop(fst_map, data_type, key, start, Len(fst_map))
    IN [k \in 1..(stop - start) |-> fst_map[start + k - 1].value]

\* faulty variant: every streamed key is pushed, without comparing with last_key
keys_pushes_NoDedup(fst_map, start, i) == TRUE

\* the loop of keys pushes the key of entry i: last_key is None at the first
\* streamed entry and the key of entry i - 1 afterwards
keys_pushes(fst_map, start, i) ==
    \/ i = start
    \/ extract_key_from_composite(fst_map[i - 1].key)
         # extract_key_from_composite(fst_map[i].key)

\* the keys pushed for the entries lo..hi of the stream started at start
RECURSIVE keys_range(_, _, _, _)
keys_range(fst_map, start, lo, hi) ==
    IF lo > hi THEN <<>>
    ELSE IF lo = hi
    THEN IF keys_pushes(fst_map, start, lo)
         THEN <<extract_key_from_composite(fst_map[lo].key)>>
         ELSE <<>>
    ELSE LET mid == (lo + hi) \div 2 IN
         keys_range(fst_map, start, lo, mid) \o keys_range(fst_map, start, mid + 1, hi)

\* the first entry among lo..hi at which the loop of keys breaks, hi + 1
\* when it breaks at none of them
RECURSIVE keys_stop(_, _, _, _)
keys_stop(fst_map, type_byte, lo, hi) ==
    IF lo > hi THEN lo
    ELSE IF lo = hi
    THEN IF fst_map[lo].key = <<>> \/ fst_map[lo].key[1] # type_byte
         THEN lo ELSE hi + 1
    ELSE LET mid == (lo + hi) \div 2
             l == keys_stop(fst_map, type_byte, lo, mid)
         IN IF l <= mid THEN l
            ELSE keys_stop(fst_map, type_byte, mid + 1, hi)

\* UnifiedFstIndex::keys: stream from the first entry >= [type_byte] up to
\* the first entry of another kind
keys(fst_map, data_type) ==
    LET type_byte == as_byte(data_type)
        start_key == <<type_byte>>
        start == range_ge(fst_map, start_key)
        stop == keys_stop(fst_map, type_byte, start, Len(fst_map))
    IN keys_range(fst_map, start, start, stop - 1)

(***************************************************************************)
(* State of the package build and query path (format/builder.rs).          *)
(***************************************************************************)
VARIABLES
    phase,          \* "building", "saved", "open" or "failed"
    pending,        \* the (kind, item) pairs import_dictionary has yet to import
    builder_store,  \* DictionaryIndexBuilder.store_builder
    builder_keys,   \* DictionaryIndexBuilder.*_keys: kind -> key -> Vec<u64>
    package,        \* the saved DictionaryPackage {fst, data}
    index_fst,      \* UnifiedIndex.fst (entries of the FST map)
    index_store,    \* UnifiedIndex.store (stream and decoder position)
    log,            \* history: the inserted items with their returned offsets
    result          \* the outcome of the last query operation

build_vars == <<phase, pending, builder_store, builder_keys, package, index_fst,
                index_store, log, result>>

\* the container path: one container file, written once, possibly damaged
\* on disk afterwards, and the process-wide flag
VARIABLES
    disk_file,          \* the bytes of the container file (<<>>: not yet written)
    written,            \* history: who wrote the file, with which header and payload
    tamper,             \* history: the damage done to the file since it was written
    ALLOW_DEV_VERSION,  \* the process-wide AtomicBool
    allow_called,       \* history: allow_dev_version has been called
    overflow_checks,    \* the build panics on integer overflow (debug profile)
    outcome             \* the result of the last read, validate or open

container_vars == <<disk_file, written, tamper, ALLOW_DEV_VERSION, allow_called,
                    overflow_checks, outcome>>

\* the deinflection path: one transform set, compiled once, and queried
VARIABLES
    transform_set,  \* the TransformSet handed to make (no transforms: none yet)
    hash_order,     \* history: the iteration order of the hashed collections
    compiled,       \* the Result of make
    word,           \* the argument of the last deinflect
    deinflected,    \* the Vec<DeinflectionResult> of the last deinflect
    call_stack      \* the frames of the running calls of deinflect_recursive

deinflect_vars == <<transform_set, hash_order, compiled, word, deinflected, call_stack>>

NoItem == [key |-> <<>>, body |-> <<>>]
NoResult == [op |-> "none", kind |-> 0, key |-> <<>>, offset |-> 0,
             ok |-> TRUE, ids |-> <<>>, keys |-> <<>>, item |-> NoItem, items |-> <<>>,
             mappings |-> <<>>, count |-> 0]

\* DictionaryIndexBuilder::new
BuildInit ==
    /\ phase = "building"
    /\ pending = <<>>
    /\ builder_store = UnifiedStoreBuilder_new
    /\ builder_keys = [t \in DataType |-> [k \in KeyStrings |-> <<>>]]
    /\ package = [fst |-> <<>>, data |-> [stream |-> <<>>, finished |-> FALSE]]
    /\ index_fst = <<>>
    /\ index_store = [stream |-> <<>>, pos |-> 0]
    /\ log = <<>>
    /\ result = NoResult

\* the dictionaries handed to import_dictionary: vectors of terms and kanji
\* of at most room items together, and one dictionary with RunLen terms of
\* the same key
Dictionaries(room) ==
    UNION {[terms : [1..a -> Items], kanji : [1..b -> Items]] :
              a \in 0..room, b \in 0..room}

RunDictionary ==
    [terms |-> [i \in 1..RunLen |-> [key |-> <<97>>, body |-> <<>>]],
     kanji |-> <<>>]

Min(a, b) == IF a < b THEN a ELSE b

\* DictionaryIndexBuilder::import_dictionary is called: the items of the
\* dictionary are imported kind by kind, terms first (tags, term_meta and
\* kanji_meta of the dictionaries above are empty vectors)
import_dictionary(dict) ==
    /\ phase = "building"
    /\ pending = <<>>
    /\ pending' = [i \in 1..Len(dict.terms) |-> [kind |-> Term, item |-> dict.terms[i]]]
                  \o [i \in 1..Len(dict.kanji) |-> [kind |-> Kanji, item |-> dict.kanji[i]]]
    /\ UNCHANGED <<phase, builder_store, builder_keys, package, index_fst,
                   index_store, log, result>>

ImportDictionary ==
    /\ \/ \E dict \in Dictionaries(Min(MaxBatch, MaxItems - Len(log))) :
             /\ Len(log) + Len(dict.terms) + Len(dict.kanji) <= MaxItems
             /\ import_dictionary(dict)
       \/ /\ log = <<>>
          /\ import_dictionary(RunDictionary)
    /\ UNCHANGED <<container_vars, deinflect_vars>>

\* one iteration of the loop of DictionaryIndexBuilder::import_items:
\* insert the item into the store, push the returned offset under its key
ImportItem ==
    /\ phase = "building"
    /\ pending # <<>>
    /\ LET data_type == Head(pending).kind
           item == Head(pending).item
           r == insert(builder_store, item)
           id == r.offset
       IN /\ builder_store' = r.sb
          /\ builder_keys' = [builder_keys EXCEPT ![data_type][item.key] = Append(@, id)]
          /\ log' = Append(log, [kind |-> data_type, key |-> item.key,
                                 item |-> item, offset |-> id])
    /\ pending' = Tail(pending)
    /\ UNCHANGED <<phase, package, index_fst, index_store, result>>
    /\ UNCHANGED <<container_vars, deinflect_vars>>

\* DictionaryIndexBuilder::finalize_to_single_file, with source_dir = None
\* (collect_files adds nothing): finalize the store, build the FST, save.
FinalizeToSingleFile ==
    /\ phase = "building"
    /\ pending = <<>>
    /\ \E fail \in {"none", "create", "write", "finish"} :
         LET data == finalize(builder_store, fail)
             fst == build(builder_keys)
         IN IF data.ok /\ fst.ok
            THEN /\ phase' = "saved"
                 /\ package' = [fst |-> fst.fst_map, data |-> data.blob]
            ELSE /\ phase' = "failed"
                 /\ UNCHANGED package
    /\ UNCHANGED <<pending, builder_store, builder_keys, index_fst, index_store, log, result>>
    /\ UNCHANGED <<container_vars, deinflect_vars>>

\* open_package: load the package, UnifiedFstIndex::from_bytes,
\* UnifiedStore::new, UnifiedIndex::new
OpenPackage ==
    /\ phase = "saved"
    /\ LET st == UnifiedStore_new(package.data) IN
       IF st.ok
       THEN /\ phase' = "open"
            /\ index_fst' = package.fst
            /\ index_store' = st.store
       ELSE /\ phase' = "failed"
            /\ UNCHANGED <<index_fst, index_store>>
    /\ UNCHANGED <<pending, builder_store, builder_keys, package, log, result>>
    /\ UNCHANGED <<container_vars, deinflect_vars>>

\* the kinds that are queried: the two imported ones and one without entries
QueryKinds == {Term, Kanji}

\* UnifiedIndex::lookup_ids (lookup_terms, lookup_kanji, ...)
LookupIds ==
    /\ phase = "open"
    /\ \E data_type \in QueryKinds, key \in KeyStrings :
         result' = [NoResult EXCEPT !.op = "lookup", !.kind = data_type, !.key = key,
                                    !.ids = lookup(index_fst, data_type, key)]
    /\ UNCHANGED <<phase, pending, builder_store, builder_keys, package, index_fst,
                   index_store, log>>
    /\ UNCHANGED <<container_vars, deinflect_vars>>

\* UnifiedFstIndex::keys (term_keys, list_extra_files)
Keys ==
    /\ phase = "open"
    /\ \E data_type \in QueryKinds :
         result' = [NoResult EXCEPT !.op = "keys", !.kind = data_type,
                                    !.keys = keys(index_fst, data_type)]
    /\ UNCHANGED <<phase, pending, builder_store, builder_keys, package, index_fst,
                   index_store, log>>
    /\ UNCHANGED <<container_vars, deinflect_vars>>

\* UnifiedIndex::get_term, get_kanji, ...: UnifiedStore::get at any offset
GetRecord ==
    /\ phase = "open"
    /\ \E offset \in 0..Min(Len(index_store.stream) + 1, MaxGetOffset) :
         LET r == get(index_store, offset) IN
         /\ index_store' = r.store
         /\ result' = [NoResult EXCEPT !.op = "get", !.offset = offset,
                                       !.ok = r.ok, !.item = r.item]
    /\ UNCHANGED <<phase, pending, builder_store, builder_keys, package, index_fst, log>>
    /\ UNCHANGED <<container_vars, deinflect_vars>>

\* the filter_map of lookup_full over ids[lo..hi]: get each id in turn, keep
\* the records of the calls that returned Ok
RECURSIVE filter_map_get(_, _, _, _)
filter_map_get(store, ids, lo, hi) ==
    IF lo > hi THEN [items |-> <<>>, store |-> store]
    ELSE IF lo = hi
    THEN With(get(store, ids[lo]), LAMBDA r :
              [items |-> IF r.ok THEN <<r.item>> ELSE <<>>, store |-> r.store])
    ELSE With(filter_map_get(store, ids, lo, (lo + hi) \div 2), LAMBDA left :
         With(filter_map_get(left.store, ids, (lo + hi) \div 2 + 1, hi), LAMBDA right :
              [items |-> left.items \o right.items, store |-> right.store]))

\* UnifiedIndex::lookup_full: the records and the store after the calls
lookup_full(fst_map, store, data_type, key) ==
    With(lookup(fst_map, data_type, key), LAMBDA ids :
         filter_map_get(store, ids, 1, Len(ids)))

\* open_package on a package file that holds the index of the build and the
\* store of an earlier build of the same dictionaries, with the first n
\* records only
OpenStalePackage ==
    /\ phase = "saved"
    /\ package.data.finished
    /\ \E n \in 0..(Len(log) - 1) :
         index_store' = [stream |-> SubSeq(package.data.stream, 1, log[n + 1].offset),
                         pos |-> 0]
    /\ phase' = "open"
    /\ index_fst' = package.fst
    /\ UNCHANGED <<pending, builder_store, builder_keys, package, log, result>>
    /\ UNCHANGED <<container_vars, deinflect_vars>>

\* UnifiedIndex::lookup_terms_full, lookup_kanji_full, ...
LookupFull ==
    /\ phase = "open"
    /\ \E data_type \in QueryKinds, key \in KeyStrings :
         \E r \in {lookup_full(index_fst, index_store, data_type, key)} :
            /\ index_store' = r.store
            /\ result' = [NoResult EXCEPT !.op = "lookup_full", !.kind = data_type,
                                          !.key = key, !.items = r.items]
    /\ UNCHANGED <<phase, pending, builder_store, builder_keys, package, index_fst, log>>
    /\ UNCHANGED <<container_vars, deinflect_vars>>

\* faulty variant: every composite of the merged stream is counted
union_unique_term_count_CountAll(indexes) ==
    Cardinality(UNION {{indexes[n][i].key :
                           i \in {j \in 1..Len(indexes[n]) :
                                     indexes[n][j].key[1] = as_byte(Term)}} :
                       n \in 1..Len(indexes)})

\* union_unique_term_count(indexes): one range stream per index over the
\* composites of kind Term, merged by an ordered union that yields every
\* distinct composite once; the composites whose repetition index is 0 are
\* counted.  (This function has no source in format/; it is modelled from
\* its description.)
union_unique_term_count(indexes) ==
    Cardinality({composite \in
                    UNION {{indexes[n][i].key :
                               i \in {j \in 1..Len(indexes[n]) :
                                         indexes[n][j].key[1] = as_byte(Term)}} :
                           n \in 1..Len(indexes)} :
                 SubSeq(composite, position_zero(composite, 2) + 1, Len(composite))
                    = to_le_bytes(0)})

\* the key maps the united indexes are built from: "a" inserted up to twice
\* and "", "ab" up to once as terms, "ab" up to once as kanji
UnionMappings ==
    {[t \in DataType |-> [k \in KeyStrings |->
        IF t = Term /\ k = <<97>> THEN [i \in 1..a |-> 10 * i]
        ELSE IF t = Term /\ k = <<>> THEN [i \in 1..e |-> 7]
        ELSE IF t = Term THEN [i \in 1..b |-> 3]
        ELSE IF t = Kanji /\ k = <<97, 98>> THEN [i \in 1..c |-> 5]
        ELSE <<>>]] :
     a \in 0..2, e \in 0..1, b \in 0..1, c \in 0..1}

\* union_unique_terms(packages): the count over the indexes of the packages
UnionUniqueTerms ==
    /\ result.op = "none"
    /\ \E n \in 0..MaxIndexes : \E mappings \in [1..n -> UnionMappings] :
         result' = [NoResult EXCEPT
                       !.op = "union", !.mappings = mappings,
                       !.count = union_unique_term_count(
                                     [i \in 1..n |-> build(mappings[i]).fst_map])]
    /\ UNCHANGED <<phase, pending, builder_store, builder_keys, package, index_fst,
                   index_store, log>>
    /\ UNCHANGED <<container_vars, deinflect_vars>>

(***************************************************************************)
(* Container envelope (format/container.rs).  Text is ASCII; a character   *)
(* is its byte.                                                            *)
(***************************************************************************)
CURRENT_HEADER_VERSION == 0
CURRENT_CONTAINER_VERSION == 0
MIN_COMPATIBLE_HEADER_VERSION == 0
\* "TOMOCHAN:XXXX:".len()
MAGIC_LEN == 14
\* length of payload_sha256
SHA256_LEN == 32

\* "TOMOCHAN:"
MAGIC_PREFIX == <<84, 79, 77, 79, 67, 72, 65, 78, 58>>
\* "Dictionary", "Deinflector": the serialized unit variants of Role
STR_Dictionary == <<68, 105, 99, 116, 105, 111, 110, 97, 114, 121>>
STR_Deinflector == <<68, 101, 105, 110, 102, 108, 101, 99, 116, 111, 114>>
\* the field names of ContainerHeader in serialization order, each with its
\* quotes and colon, the first after "{" and the others after ","
KEY_container_version == <<123, 34, 99, 111, 110, 116, 97, 105, 110, 101, 114, 95, 118, 101, 114, 115, 105, 111, 110, 34, 58>>
KEY_name == <<44, 34, 110, 97, 109, 101, 34, 58>>
KEY_revision_name == <<44, 34, 114, 101, 118, 105, 115, 105, 111, 110, 95, 110, 97, 109, 101, 34, 58>>
KEY_revision == <<44, 34, 114, 101, 118, 105, 115, 105, 111, 110, 34, 58>>
KEY_role == <<44, 34, 114, 111, 108, 101, 34, 58>>
KEY_min_role_version == <<44, 34, 109, 105, 110, 95, 114, 111, 108, 101, 95, 118, 101, 114, 115, 105, 111, 110, 34, 58>>
KEY_payload_length == <<44, 34, 112, 97, 121, 108, 111, 97, 100, 95, 108, 101, 110, 103, 116, 104, 34, 58>>
KEY_payload_sha256 == <<44, 34, 112, 97, 121, 108, 111, 97, 100, 95, 115, 104, 97, 50, 53, 54, 34, 58>>

\* Role: Dictionary, Deinflector or Unknown(str)
RoleDictionary == [variant |-> "Dictionary", str |-> <<>>]
RoleDeinflector == [variant |-> "Deinflector", str |-> <<>>]
RoleUnknown(str) == [variant |-> "Unknown", str |-> str]

\* Serialize for Role: a unit variant is its name, Unknown is untagged
SerializeRole(role) ==
    IF role.variant = "Dictionary" THEN STR_Dictionary
    ELSE IF role.variant = "Deinflector" THEN STR_Deinflector
    ELSE role.str

\* Deserialize for Role: a variant name if it is one, else Unknown
DeserializeRole(str) ==
    IF str = STR_Dictionary THEN RoleDictionary
    ELSE IF str = STR_Deinflector THEN RoleDeinflector
    ELSE RoleUnknown(str)

\* SHA-256 as a collision-free digest of SHA256_LEN bytes: two payloads of
\* fewer than SHA256_LEN bytes have the same digest only if they are equal
Sha256(data) ==
    [i \in 1..SHA256_LEN |->
        IF i <= Len(data) THEN (data[i] + 7 * i + Len(data)) % 256
        ELSE (31 * Len(data) + i) % 256]

(***************************************************************************)
(* serde_json: compact serialization, and parsing from a reader.           *)
(***************************************************************************)
RECURSIVE JsonDigits(_)
JsonDigits(n) ==
    IF n < 10 THEN <<48 + n>> ELSE JsonDigits(n \div 10) \o <<48 + (n % 10)>>

\* a string: quotes, with " and \ escaped by a backslash
RECURSIVE JsonEscape(_, _)
JsonEscape(str, i) ==
    IF i > Len(str) THEN <<>>
    ELSE (IF str[i] = 34 \/ str[i] = 92 THEN <<92, str[i]>> ELSE <<str[i]>>)
         \o JsonEscape(str, i + 1)

JsonString(str) == <<34>> \o JsonEscape(str, 1) \o <<34>>

\* an array of numbers
RECURSIVE JsonNumbers(_, _)
JsonNumbers(nums, i) ==
    IF i > Len(nums) THEN <<>>
    ELSE (IF i > 1 THEN <<44>> ELSE <<>>) \o JsonDigits(nums[i])
         \o JsonNumbers(nums, i + 1)

JsonArray(nums) == <<91>> \o JsonNumbers(nums, 1) \o <<93>>

\* serde_json::to_vec(&ContainerHeader); meta is flattened in place
to_vec(header) ==
    KEY_container_version \o JsonDigits(header.container_version)
    \o KEY_name \o JsonString(header.meta.name)
    \o KEY_revision_name \o JsonString(header.meta.revision_name)
    \o KEY_revision \o JsonDigits(header.meta.revision)
    \o KEY_role \o JsonString(SerializeRole(header.role))
    \o KEY_min_role_version \o JsonDigits(header.min_role_version)
    \o KEY_payload_length \o JsonDigits(header.payload_length)
    \o KEY_payload_sha256 \o JsonArray(header.payload_sha256)
    \o <<125>>

\* Parsing: d is the file, p the 1-based position of the next byte; a
\* parse result is [ok, val, pos].
IsDigit(b) == b >= 48 /\ b <= 57

\* the literal lit is next: the position after it, or 0
ParseLiteral(d, p, lit) ==
    IF p >= 1 /\ p + Len(lit) - 1 <= Len(d) /\ SubSeq(d, p, p + Len(lit) - 1) = lit
    THEN p + Len(lit) ELSE 0

\* the digits from p on, most significant first
RECURSIVE ParseDigits(_, _, _)
ParseDigits(d, p, acc) ==
    IF p <= Len(d) /\ IsDigit(d[p]) /\ acc < 100000000
    THEN ParseDigits(d, p + 1, 10 * acc + (d[p] - 48))
    ELSE [val |-> acc, pos |-> p]

\* an unsigned number: at least one digit, no leading zero
ParseNumber(d, p) ==
    IF p < 1 \/ p > Len(d) \/ ~IsDigit(d[p]) THEN [ok |-> FALSE, val |-> 0, pos |-> 0]
    ELSE LET r == ParseDigits(d, p, 0) IN
         IF d[p] = 48 /\ r.pos > p + 1 THEN [ok |-> FALSE, val |-> 0, pos |-> 0]
         ELSE [ok |-> TRUE, val |-> r.val, pos |-> r.pos]

\* the characters of a string up to its closing quote, p after the opening one
RECURSIVE ParseChars(_, _, _)
ParseChars(d, p, acc) ==
    IF p > Len(d) THEN [ok |-> FALSE, val |-> <<>>, pos |-> 0]
    ELSE IF d[p] = 34 THEN [ok |-> TRUE, val |-> acc, pos |-> p + 1]
    ELSE IF d[p] = 92
    THEN IF p + 1 <= Len(d) /\ (d[p + 1] = 34 \/ d[p + 1] = 92)
         THEN ParseChars(d, p + 2, Append(acc, d[p + 1]))
         ELSE [ok |-> FALSE, val |-> <<>>, pos |-> 0]
    ELSE IF d[p] < 32 \/ d[p] >= 128 THEN [ok |-> FALSE, val |-> <<>>, pos |-> 0]
    ELSE ParseChars(d, p + 1, Append(acc, d[p]))

ParseString(d, p) ==
    IF p < 1 \/ p > Len(d) \/ d[p] # 34 THEN [ok |-> FALSE, val |-> <<>>, pos |-> 0]
    ELSE ParseChars(d, p + 1, <<>>)

\* the elements of an array of bytes up to its closing bracket
RECURSIVE ParseElements(_, _, _)
ParseElements(d, p, acc) ==
    LET n == ParseNumber(d, p) IN
    IF ~n.ok \/ n.val > 255 THEN [ok |-> FALSE, val |-> <<>>, pos |-> 0]
    ELSE IF n.pos <= Len(d) /\ d[n.pos] = 44
    THEN ParseElements(d, n.pos + 1, Append(acc, n.val))
    ELSE IF n.pos <= Len(d) /\ d[n.pos] = 93
    THEN [ok |-> TRUE, val |-> Append(acc, n.val), pos |-> n.pos + 1]
    ELSE [ok |-> FALSE, val |-> <<>>, pos |-> 0]

\* [u8; SHA256_LEN]: an array of exactly SHA256_LEN bytes
ParseByteArray(d, p) ==
    IF p < 1 \/ p > Len(d) \/ d[p] # 91 THEN [ok |-> FALSE, val |-> <<>>, pos |-> 0]
    ELSE LET r == ParseElements(d, p + 1, <<>>) IN
         IF r.ok /\ Len(r.val) = SHA256_LEN THEN r
         ELSE [ok |-> FALSE, val |-> <<>>, pos |-> 0]

NoHeader ==
    [container_version |-> 0,
     meta |-> [name |-> <<>>, revision_name |-> <<>>, revision |-> 0],
     role |-> RoleUnknown(<<>>), min_role_version |-> 0,
     payload_length |-> 0, payload_sha256 |-> <<>>]

\* ContainerHeader::deserialize from a reader at position p, for the field
\* order of to_vec; pos is the position after the closing brace
DeserializeHeader(d, p) ==
    LET f1 == ParseNumber(d, ParseLiteral(d, p, KEY_container_version))
        f2 == ParseString(d, ParseLiteral(d, f1.pos, KEY_name))
        f3 == ParseString(d, ParseLiteral(d, f2.pos, KEY_revision_name))
        f4 == ParseNumber(d, ParseLiteral(d, f3.pos, KEY_revision))
        f5 == ParseString(d, ParseLiteral(d, f4.pos, KEY_role))
        f6 == ParseNumber(d, ParseLiteral(d, f5.pos, KEY_min_role_version))
        f7 == ParseNumber(d, ParseLiteral(d, f6.pos, KEY_payload_length))
        f8 == ParseByteArray(d, ParseLiteral(d, f7.pos, KEY_payload_sha256))
        end == ParseLiteral(d, f8.pos, <<125>>)
    IN IF f1.ok /\ f2.ok /\ f3.ok /\ f4.ok /\ f5.ok /\ f6.ok /\ f7.ok /\ f8.ok
          /\ end # 0
       THEN [ok |-> TRUE, pos |-> end,
             header |-> [container_version |-> f1.val,
                         meta |-> [name |-> f2.val, revision_name |-> f3.val,
                                   revision |-> f4.val],
                         role |-> DeserializeRole(f5.val),
                         min_role_version |-> f6.val,
                         payload_length |-> f7.val,
                         payload_sha256 |-> f8.val]]
       ELSE [ok |-> FALSE, pos |-> 0, header |-> NoHeader]

(***************************************************************************)
(* Reading, validating and writing a container (format/container.rs).      *)
(***************************************************************************)
HexDigit(n) == IF n < 10 THEN 48 + n ELSE 55 + n

\* format!("{:04X}", version)
Hex04X(version) ==
    <<HexDigit((version \div 4096) % 16), HexDigit((version \div 256) % 16),
      HexDigit((version \div 16) % 16), HexDigit(version % 16)>>

\* the value of a hexadecimal digit, -1 for any other character
HexValue(c) ==
    IF c >= 48 /\ c <= 57 THEN c - 48
    ELSE IF c >= 65 /\ c <= 70 THEN c - 55
    ELSE IF c >= 97 /\ c <= 102 THEN c - 87
    ELSE -1

RECURSIVE HexNumber(_, _, _)
HexNumber(str, i, acc) ==
    IF i > Len(str) THEN acc
    ELSE IF HexValue(str[i]) < 0 THEN -1
    ELSE HexNumber(str, i + 1, 16 * acc + HexValue(str[i]))

\* u8::from_str_radix(str, 16): an optional "+", at least one digit, a value
\* of at most 255; -1 for an error
u8_from_str_radix(str) ==
    LET digits == IF str # <<>> /\ str[1] = 43 THEN Tail(str) ELSE str
        v == IF digits = <<>> THEN -1 ELSE HexNumber(digits, 1, 0)
    IN IF v > 255 THEN -1 ELSE v

\* json_parsed: the header deserializer has been run on the reader
ReadError(err) ==
    [ok |-> FALSE, err |-> err, header |-> NoHeader, payload_offset |-> 0,
     json_parsed |-> FALSE]

\* faulty variant: the first 9 bytes are not compared with "TOMOCHAN:"
read_container_NoPrefixCheck(reader) ==
    IF Len(reader) < MAGIC_LEN THEN ReadError("UnexpectedEof")
    ELSE LET magic == SubSeq(reader, 1, MAGIC_LEN) IN
    IF \E i \in 1..MAGIC_LEN : magic[i] >= 128 THEN ReadError("InvalidMagicPrefix")
    ELSE LET version_hex == SubSeq(magic, Len(MAGIC_PREFIX) + 1, MAGIC_LEN - 1)
             version == u8_from_str_radix(version_hex)
         IN
    IF version < 0 THEN ReadError("InvalidVersion")
    ELSE IF version < MIN_COMPATIBLE_HEADER_VERSION THEN ReadError("IncompatibleVersion")
    ELSE With(DeserializeHeader(reader, MAGIC_LEN + 1), LAMBDA de :
    IF ~de.ok THEN [ReadError("JsonParse") EXCEPT !.json_parsed = TRUE]
    ELSE [ok |-> TRUE, err |-> "", header |-> de.header, payload_offset |-> de.pos - 1,
          json_parsed |-> TRUE])

\* ContainerFileInfo::read_container.  (The magic holds a non-ASCII byte only
\* when it is not UTF-8 in the files of the model.)
read_container(reader) ==
    IF Len(reader) < MAGIC_LEN THEN ReadError("UnexpectedEof")
    ELSE LET magic == SubSeq(reader, 1, MAGIC_LEN) IN
    IF \E i \in 1..MAGIC_LEN : magic[i] >= 128 THEN ReadError("InvalidMagicPrefix")
    ELSE IF SubSeq(magic, 1, Len(MAGIC_PREFIX)) # MAGIC_PREFIX THEN ReadError("NotRecognized")
    ELSE LET version_hex == SubSeq(magic, Len(MAGIC_PREFIX) + 1, MAGIC_LEN - 1)
             version == u8_from_str_radix(version_hex)
         IN
    IF version < 0 THEN ReadError("InvalidVersion")
    ELSE IF version < MIN_COMPATIBLE_HEADER_VERSION THEN ReadError("IncompatibleVersion")
    ELSE With(DeserializeHeader(reader, MAGIC_LEN + 1), LAMBDA de :
    IF ~de.ok THEN [ReadError("JsonParse") EXCEPT !.json_parsed = TRUE]
    ELSE [ok |-> TRUE, err |-> "", header |-> de.header, payload_offset |-> de.pos - 1,
          json_parsed |-> TRUE])

\* faulty variant: the length of the payload region is not compared with the header
validate_payload_NoLengthCheck(info, reader) ==
    LET eof == Len(reader)
        taken == SubSeq(reader, info.payload_offset + 1,
                        Min(eof, info.payload_offset + info.header.payload_length))
    IN IF eof < info.payload_offset THEN "InvalidFileLength"
       ELSE IF Sha256(taken) # info.header.payload_sha256 THEN "HashMismatch"
       ELSE "Ok"

\* ContainerFileInfo::validate_payload
validate_payload(info, reader) ==
    LET eof == Len(reader)
        actual_length == eof - info.payload_offset
        taken == SubSeq(reader, info.payload_offset + 1,
                        Min(eof, info.payload_offset + info.header.payload_length))
        actual_hash == Sha256(taken)
    IN IF eof < info.payload_offset THEN "InvalidFileLength"
       ELSE IF actual_length # info.header.payload_length THEN "LengthMismatch"
       ELSE IF actual_hash # info.header.payload_sha256 THEN "HashMismatch"
       ELSE "Ok"

\* the roles that implement ContainerFormat
Formats == {"Dictionary", "Deinflector"}

\* ContainerFormat::role, role_version for Dictionary and Deinflector
role(T) == IF T = "Dictionary" THEN RoleDictionary ELSE RoleDeinflector
role_version(T) == 0

\* the ContainerHeader that write_container builds
write_container_header(T, meta, data) ==
    [container_version |-> CURRENT_CONTAINER_VERSION,
     meta |-> meta,
     role |-> role(T),
     min_role_version |-> role_version(T),
     payload_length |-> Len(data),
     payload_sha256 |-> Sha256(data)]

\* faulty variant: the colon that ends the magic is not written
write_container_NoColon(T, meta, data) ==
    LET header == write_container_header(T, meta, data)
        header_json == to_vec(header)
    IN MAGIC_PREFIX \o Hex04X(CURRENT_HEADER_VERSION) \o header_json \o data

\* write_container: magic, header JSON, payload
write_container(T, meta, data) ==
    LET header == write_container_header(T, meta, data)
        header_json == to_vec(header)
    IN MAGIC_PREFIX \o Hex04X(CURRENT_HEADER_VERSION) \o <<58>> \o header_json \o data

(***************************************************************************)
(* The role payloads and their loaders (format/dictionary.rs,              *)
(* format/deinflector.rs).  A decoder below yields the position after what *)
(* it decoded, 0 for a decode error; a position of 0 is passed on.         *)
(***************************************************************************)
\* u64 / usize whose value is not used
SkipVarint(d, p) == DecodeVarint(d, p).pos

\* Vec<u8>
SkipBytes(d, p) == DecodeBytes(d, p).pos

\* String: its bytes are UTF-8 (no byte above 127 in the texts of the model)
SkipString(d, p) ==
    LET r == DecodeBytes(d, p) IN
    IF r.ok /\ \A i \in 1..Len(r.val) : r.val[i] < 128 THEN r.pos ELSE 0

\* Option<String>
SkipOptionString(d, p) ==
    IF p < 1 \/ p > Len(d) THEN 0
    ELSE IF d[p] = 0 THEN p + 1
    ELSE IF d[p] = 1 THEN SkipString(d, p + 1)
    ELSE 0

\* bool
SkipBool(d, p) == IF p >= 1 /\ p <= Len(d) /\ d[p] <= 1 THEN p + 1 ELSE 0

\* n TransformMeta {name, desc, is_final}
RECURSIVE SkipTransformMetas(_, _, _)
SkipTransformMetas(d, p, n) ==
    IF n = 0 \/ p = 0 THEN p
    ELSE SkipTransformMetas(d, SkipBool(d, SkipOptionString(d, SkipString(d, p))), n - 1)

\* n Production {transform_idx, accept_tags, produce_tags, produce_suffix}
RECURSIVE SkipProductions(_, _, _)
SkipProductions(d, p, n) ==
    IF n = 0 \/ p = 0 THEN p
    ELSE SkipProductions(d, SkipBytes(d, SkipVarint(d, SkipVarint(d, SkipVarint(d, p)))), n - 1)

\* n entries (Vec<u8>, Vec<Production>) of the suffix map
RECURSIVE SkipSuffixEntries(_, _, _)
SkipSuffixEntries(d, p, n) ==
    IF n = 0 \/ p = 0 THEN p
    ELSE LET m == DecodeVarint(d, SkipBytes(d, p)) IN
         IF ~m.ok \/ m.val > Len(d) THEN 0
         ELSE SkipSuffixEntries(d, SkipProductions(d, m.pos, m.val), n - 1)

\* n usize
RECURSIVE SkipUsizes(_, _, _)
SkipUsizes(d, p, n) ==
    IF n = 0 \/ p = 0 THEN p
    ELSE SkipUsizes(d, SkipVarint(d, p), n - 1)

\* bincode::decode_from_std_read::<Deinflector>: transform_meta, suffix_map,
\* suffix_lengths, each a count and its elements
DecodeDeinflector(d, p) ==
    With(DecodeVarint(d, p), LAMBDA n1 :
    With(IF n1.ok /\ n1.val <= Len(d) THEN SkipTransformMetas(d, n1.pos, n1.val) ELSE 0,
         LAMBDA p1 :
    With(DecodeVarint(d, p1), LAMBDA n2 :
    With(IF n2.ok /\ n2.val <= Len(d) THEN SkipSuffixEntries(d, n2.pos, n2.val) ELSE 0,
         LAMBDA p2 :
    With(DecodeVarint(d, p2), LAMBDA n3 :
    IF n3.ok /\ n3.val <= Len(d) THEN SkipUsizes(d, n3.pos, n3.val) ELSE 0)))))

\* Deinflector::load: decode, then the decoder must be at the end of the file
Deinflector_load(file, payload_offset, verify) ==
    With(DecodeDeinflector(file, payload_offset + 1), LAMBDA end :
    IF end = 0 THEN [ok |-> FALSE, err |-> "Decode"]
    ELSE IF end - 1 # Len(file) THEN [ok |-> FALSE, err |-> "FileLength"]
    ELSE [ok |-> TRUE, err |-> ""])

\* DictionaryIndex::load_mmap: map the FST image [base_offset, base_offset + fst_len)
load_mmap(file, base_offset, fst_len) == [ok |-> TRUE, err |-> ""]

\* Store::new over the file positioned at the start of the store
Store_new(file, store_start) == [ok |-> TRUE, err |-> ""]

\* Dictionary::load: decode {fst_len, store_len}, compare the end of the store
\* with the length of the file, map the FST, open the store.  The sum
\* base_offset + fst_len + store_len is a u64 sum: on overflow it panics in a
\* build with overflow checks and wraps in a build without
Dictionary_load(file, payload_offset, verify) ==
    With(DecodeVarint(file, payload_offset + 1), LAMBDA fst_len :
    With(DecodeVarint(file, fst_len.pos), LAMBDA store_len :
    IF payload_offset > Len(file) \/ ~fst_len.ok \/ ~store_len.ok
    THEN [ok |-> FALSE, err |-> "Decode"]
    ELSE
    With(store_len.pos - 1, LAMBDA base_offset :
    With(overflowing_add(to_le_bytes(base_offset), fst_len.le, 1, 0), LAMBDA store_start :
    With(overflowing_add(store_start.le, store_len.le, 1, 0), LAMBDA store_end :
    IF overflow_checks /\ (store_start.overflow \/ store_end.overflow)
    THEN [ok |-> FALSE, err |-> "Panic"]
    ELSE IF to_le_bytes(Len(file)) # store_end.le
    THEN [ok |-> FALSE, err |-> "FileLength"]
    ELSE IF ~load_mmap(file, base_offset, fst_len.val).ok
    THEN [ok |-> FALSE, err |-> "Fst"]
    ELSE IF ~Store_new(file, base_offset + fst_len.val).ok
    THEN [ok |-> FALSE, err |-> "Store"]
    ELSE [ok |-> TRUE, err |-> ""])))))

\* ContainerFormat::load
load(T, file, payload_offset, verify) ==
    IF T = "Dictionary" THEN Dictionary_load(file, payload_offset, verify)
    ELSE Deinflector_load(file, payload_offset, verify)

OpenError(err, container) ==
    [ok |-> FALSE, err |-> err, load_called |-> FALSE, header |-> container.header]

\* the result of open_container once the header checks have passed
open_load(T, file, container, verify) ==
    With(load(T, file, container.payload_offset, verify), LAMBDA l :
    [ok |-> l.ok, err |-> l.err, load_called |-> TRUE, header |-> container.header])

\* faulty variant: the role of the header is not compared with the expected role
open_container_AnyRole(T, file, verify, dev_version_allowed) ==
    With(read_container(file), LAMBDA container :
    IF ~container.ok THEN OpenError(container.err, container)
    ELSE IF container.header.min_role_version > role_version(T)
    THEN OpenError("TooNew", container)
    ELSE IF container.header.min_role_version = 0 /\ ~dev_version_allowed
    THEN OpenError("DevelopmentVersion", container)
    ELSE open_load(T, file, container, verify))

\* faulty variant: development versions are opened whatever the flag
open_container_NoDevGate(T, file, verify, dev_version_allowed) ==
    With(read_container(file), LAMBDA container :
    IF ~container.ok THEN OpenError(container.err, container)
    ELSE IF container.header.role # role(T) THEN OpenError("RoleMismatch", container)
    ELSE IF container.header.min_role_version > role_version(T)
    THEN OpenError("TooNew", container)
    ELSE open_load(T, file, container, verify))

\* open_container: read the header, check role, role version and the
\* development gate, load.  (validate_payload is not called: "TODO: sha256
\* when verify".)
open_container(T, file, verify, dev_version_allowed) ==
    With(read_container(file), LAMBDA container :
    IF ~container.ok THEN OpenError(container.err, container)
    ELSE IF container.header.role # role(T) THEN OpenError("RoleMismatch", container)
    ELSE IF container.header.min_role_version > role_version(T)
    THEN OpenError("TooNew", container)
    ELSE IF container.header.min_role_version = 0 /\ ~dev_version_allowed
    THEN OpenError("DevelopmentVersion", container)
    ELSE open_load(T, file, container, verify))

(***************************************************************************)
(* convert_deinflector's encoding of a Deinflector (bincode).  A tag mask  *)
(* is the set of its bits.                                                 *)
(***************************************************************************)
U64_MAX == 0..63

\* byte j (0-based) of the little-endian bytes of a mask
MaskByte(mask, j) ==
    LET B(k) == IF (8 * j + k) \in mask THEN 2 ^ k ELSE 0 IN
    B(0) + B(1) + B(2) + B(3) + B(4) + B(5) + B(6) + B(7)

\* the varint of a u64 given as a mask
EncodeMask(mask) ==
    IF mask \subseteq 0..7 /\ MaskByte(mask, 0) < 251 THEN <<MaskByte(mask, 0)>>
    ELSE IF mask \subseteq 0..15 THEN <<251>> \o [j \in 1..2 |-> MaskByte(mask, j - 1)]
    ELSE IF mask \subseteq 0..31 THEN <<252>> \o [j \in 1..4 |-> MaskByte(mask, j - 1)]
    ELSE <<253>> \o [j \in 1..8 |-> MaskByte(mask, j - 1)]

EncodeTransformMeta(m) ==
    EncodeBytes(m.name)
    \o (IF m.desc = <<>> THEN <<0>> ELSE <<1>> \o EncodeBytes(m.desc[1]))
    \o <<IF m.is_final THEN 1 ELSE 0>>

EncodeProduction(pr) ==
    EncodeVarint(pr.transform_idx) \o EncodeMask(pr.accept_tags)
    \o EncodeMask(pr.produce_tags) \o EncodeBytes(pr.produce_suffix)

\* a Vec or map: the count, then the encoded elements
RECURSIVE Concat(_, _)
Concat(parts, i) == IF i > Len(parts) THEN <<>> ELSE parts[i] \o Concat(parts, i + 1)

EncodeVec(parts) == EncodeVarint(Len(parts)) \o Concat(parts, 1)

EncodeDeinflector(deinflector) ==
    EncodeVec([i \in 1..Len(deinflector.transform_meta) |->
                  EncodeTransformMeta(deinflector.transform_meta[i])])
    \o EncodeVec([i \in 1..Len(deinflector.suffix_map) |->
                  EncodeBytes(deinflector.suffix_map[i].suffix)
                  \o EncodeVec([j \in 1..Len(deinflector.suffix_map[i].productions) |->
                        EncodeProduction(deinflector.suffix_map[i].productions[j])])])
    \o EncodeVec([i \in 1..Len(deinflector.suffix_lengths) |->
                  EncodeVarint(deinflector.suffix_lengths[i])])

(***************************************************************************)
(* State of the container path: one container file, written once, possibly *)
(* damaged on disk afterwards, and the operations that read it.            *)
(***************************************************************************)
NoMeta == [name |-> <<>>, revision_name |-> <<>>, revision |-> 0]

NoOutcome ==
    [op |-> "none", T |-> "", verify |-> FALSE, allowed |-> FALSE,
     read_ok |-> FALSE, ok |-> FALSE, err |-> "", header |-> NoHeader,
     payload_offset |-> 0, validation |-> "", load_called |-> FALSE,
     json_parsed |-> FALSE]

ContainerInit ==
    /\ disk_file = <<>>
    /\ written = [by |-> "none", header |-> NoHeader, data |-> <<>>, json_len |-> 0,
                  version |-> 0]
    /\ tamper = "none"
    /\ ALLOW_DEV_VERSION = FALSE
    /\ allow_called = FALSE
    /\ overflow_checks = FALSE
    /\ outcome = NoOutcome

\* the metadata, payloads and foreign headers of the model
Metas ==
    {[name |-> <<74, 34>>, revision_name |-> <<50>>, revision |-> 10],
     [name |-> <<>>, revision_name |-> <<92>>, revision |-> 0]}

DictionaryPayload == <<1, 2, 70, 90, 91>>

EmptyDeinflector == [transform_meta |-> <<>>, suffix_map |-> <<>>, suffix_lengths |-> <<>>]

OneRuleDeinflector ==
    [transform_meta |-> <<[name |-> <<116>>, desc |-> <<>>, is_final |-> FALSE]>>,
     suffix_map |-> <<[suffix |-> <<97>>,
                       productions |-> <<[transform_idx |-> 0, accept_tags |-> {0, 1},
                                          produce_tags |-> {2}, produce_suffix |-> <<98>>]>>]>>,
     suffix_lengths |-> <<1>>]

Payloads ==
    {DictionaryPayload, EncodeDeinflector(EmptyDeinflector),
     EncodeDeinflector(OneRuleDeinflector)}

\* a dictionary payload with fst_len = 2^64 - 1 and store_len = 1 and no
\* byte after its header
WrappingPayload == <<253, 255, 255, 255, 255, 255, 255, 255, 255, 1>>

ForeignPayloads == {DictionaryPayload, EncodeDeinflector(EmptyDeinflector), WrappingPayload}

ForeignHeaders(data) ==
    {[container_version |-> 0,
      meta |-> [name |-> <<74>>, revision_name |-> <<>>, revision |-> 3],
      role |-> r, min_role_version |-> v, payload_length |-> n, payload_sha256 |-> h] :
        r \in {RoleDictionary, RoleDeinflector, RoleUnknown(<<88>>)},
        v \in {0, 1},
        n \in {Len(data), Len(data) + 1},
        h \in {Sha256(data), Sha256(<<>>)}}

\* write_container::<T>(file, meta, data) creates the file
WriteContainer ==
    /\ disk_file = <<>>
    /\ \E T \in Formats, meta \in Metas, data \in Payloads :
         LET header == write_container_header(T, meta, data) IN
         /\ disk_file' = write_container(T, meta, data)
         /\ written' = [by |-> "write_container", header |-> header, data |-> data,
                        json_len |-> Len(to_vec(header)), version |-> 0]
    /\ UNCHANGED <<tamper, ALLOW_DEV_VERSION, allow_called, overflow_checks, outcome>>
    /\ UNCHANGED <<build_vars, deinflect_vars>>

\* the file comes from another writer of the format: any role, role version,
\* payload length and hash in its header
ForeignContainer ==
    /\ disk_file = <<>>
    /\ \E data \in ForeignPayloads : \E header \in ForeignHeaders(data) :
         /\ disk_file' = MAGIC_PREFIX \o Hex04X(0) \o <<58>> \o to_vec(header) \o data
         /\ written' = [by |-> "foreign", header |-> header, data |-> data,
                        json_len |-> Len(to_vec(header)), version |-> 0]
    /\ UNCHANGED <<tamper, ALLOW_DEV_VERSION, allow_called, overflow_checks, outcome>>
    /\ UNCHANGED <<build_vars, deinflect_vars>>

PayloadStart == MAGIC_LEN + written.json_len + 1

\* the envelope versions written into the magic of a file of another writer
Versions == {0, 1, 255, 256, 4096, 65535}

\* "TOMODICT:0000:", and a magic whose first byte is not UTF-8
OtherMagics ==
    {<<84, 79, 77, 79, 68, 73, 67, 84, 58, 48, 48, 48, 48, 58>>,
     <<255, 79, 77, 79, 67, 72, 65, 78, 58, 48, 48, 48, 48, 58>>}

\* files that end inside the magic: "TOMODICT:0" and "TOMOCHAN:0"
ShortFiles ==
    {<<84, 79, 77, 79, 68, 73, 67, 84, 58, 48>>,
     <<84, 79, 77, 79, 67, 72, 65, 78, 58, 48>>}

ForeignMagicHeader ==
    [container_version |-> 0,
     meta |-> [name |-> <<74>>, revision_name |-> <<>>, revision |-> 3],
     role |-> RoleDeinflector, min_role_version |-> 0,
     payload_length |-> 3, payload_sha256 |-> Sha256(<<0, 0, 0>>)]

\* the file comes from another writer: a magic of its choice (any envelope
\* version, another prefix, or a file that ends inside the magic), then a
\* well-formed header and payload
ForeignMagic ==
    /\ disk_file = <<>>
    /\ \/ \E version \in Versions :
            /\ disk_file' = MAGIC_PREFIX \o Hex04X(version) \o <<58>>
                             \o to_vec(ForeignMagicHeader) \o <<0, 0, 0>>
            /\ written' = [by |-> "foreign_version", header |-> ForeignMagicHeader,
                           data |-> <<0, 0, 0>>,
                           json_len |-> Len(to_vec(ForeignMagicHeader)),
                           version |-> version]
       \/ \E magic \in OtherMagics :
            /\ disk_file' = magic \o to_vec(ForeignMagicHeader) \o <<0, 0, 0>>
            /\ written' = [by |-> "foreign_magic", header |-> ForeignMagicHeader,
                           data |-> <<0, 0, 0>>,
                           json_len |-> Len(to_vec(ForeignMagicHeader)), version |-> 0]
       \/ \E short \in ShortFiles :
            /\ disk_file' = short
            /\ written' = [by |-> "foreign_magic", header |-> NoHeader, data |-> <<>>,
                           json_len |-> 0, version |-> 0]
    /\ UNCHANGED <<tamper, ALLOW_DEV_VERSION, allow_called, overflow_checks, outcome>>
    /\ UNCHANGED <<build_vars, deinflect_vars>>

\* the damage below happens to a file that write_container wrote
\* one byte of the payload region changes on disk
FlipPayloadByte ==
    /\ written.by = "write_container" /\ tamper = "none"
    /\ \E i \in PayloadStart..Len(disk_file) :
         disk_file' = [disk_file EXCEPT ![i] = (disk_file[i] + 1) % 256]
    /\ tamper' = "flip"
    /\ outcome' = NoOutcome
    /\ UNCHANGED <<written, ALLOW_DEV_VERSION, allow_called,
                   overflow_checks>>
    /\ UNCHANGED <<build_vars, deinflect_vars>>

\* the file loses its last payload byte
TruncatePayload ==
    /\ written.by = "write_container" /\ tamper = "none"
    /\ Len(disk_file) >= PayloadStart
    /\ disk_file' = SubSeq(disk_file, 1, Len(disk_file) - 1)
    /\ tamper' = "truncate"
    /\ outcome' = NoOutcome
    /\ UNCHANGED <<written, ALLOW_DEV_VERSION, allow_called,
                   overflow_checks>>
    /\ UNCHANGED <<build_vars, deinflect_vars>>

\* a byte is appended to the file
AppendPayloadByte ==
    /\ written.by = "write_container" /\ tamper = "none"
    /\ disk_file' = Append(disk_file, 0)
    /\ tamper' = "append"
    /\ outcome' = NoOutcome
    /\ UNCHANGED <<written, ALLOW_DEV_VERSION, allow_called,
                   overflow_checks>>
    /\ UNCHANGED <<build_vars, deinflect_vars>>

\* ContainerFileInfo::read_container(file)
ReadContainer ==
    /\ disk_file # <<>>
    /\ \E info \in {read_container(disk_file)} :
       outcome' = [NoOutcome EXCEPT !.op = "read", !.read_ok = info.ok, !.ok = info.ok,
                                    !.err = info.err, !.header = info.header,
                                    !.payload_offset = info.payload_offset,
                                    !.json_parsed = info.json_parsed]
    /\ UNCHANGED <<disk_file, written, tamper, ALLOW_DEV_VERSION, allow_called,
                   overflow_checks>>
    /\ UNCHANGED <<build_vars, deinflect_vars>>

\* read_container(file) followed by validate_payload(file) on its result
ValidatePayload ==
    /\ disk_file # <<>>
    /\ \E info \in {read_container(disk_file)} :
       /\ info.ok
       /\ \E v \in {validate_payload(info, disk_file)} :
          outcome' = [NoOutcome EXCEPT !.op = "validate", !.read_ok = TRUE,
                                       !.ok = (v = "Ok"), !.validation = v,
                                       !.header = info.header,
                                       !.payload_offset = info.payload_offset]
    /\ UNCHANGED <<disk_file, written, tamper, ALLOW_DEV_VERSION, allow_called,
                   overflow_checks>>
    /\ UNCHANGED <<build_vars, deinflect_vars>>

\* the program is built with overflow checks (the debug profile) in place
\* of without (the release profile)
DebugBuild ==
    /\ disk_file = <<>>
    /\ ~overflow_checks
    /\ overflow_checks' = TRUE
    /\ UNCHANGED <<disk_file, written, tamper, ALLOW_DEV_VERSION, allow_called, outcome>>
    /\ UNCHANGED <<build_vars, deinflect_vars>>

\* allow_dev_version(enabled)
AllowDevVersion ==
    /\ \E enabled \in BOOLEAN : ALLOW_DEV_VERSION' = enabled
    /\ allow_called' = TRUE
    /\ UNCHANGED <<disk_file, written, tamper, overflow_checks, outcome>>
    /\ UNCHANGED <<build_vars, deinflect_vars>>

\* open_container::<T>(path, verify); dev_version_allowed() loads the flag
OpenContainer ==
    /\ disk_file # <<>>
    /\ \E T \in Formats, verify \in BOOLEAN :
         \E r \in {open_container(T, disk_file, verify, ALLOW_DEV_VERSION)} :
         outcome' = [NoOutcome EXCEPT !.op = "open", !.T = T, !.verify = verify,
                                      !.allowed = ALLOW_DEV_VERSION,
                                      !.read_ok = read_container(disk_file).ok,
                                      !.ok = r.ok, !.err = r.err, !.header = r.header,
                                      !.load_called = r.load_called]
    /\ UNCHANGED <<disk_file, written, tamper, ALLOW_DEV_VERSION, allow_called,
                   overflow_checks>>
    /\ UNCHANGED <<build_vars, deinflect_vars>>

ContainerNext ==
    \/ DebugBuild
    \/ WriteContainer
    \/ ForeignContainer
    \/ ForeignMagic
    \/ FlipPayloadByte
    \/ TruncatePayload
    \/ AppendPayloadByte
    \/ ReadContainer
    \/ ValidatePayload
    \/ AllowDevVersion
    \/ OpenContainer

(***************************************************************************)
(* The deinflector (format/deinflector_convert.rs, format/deinflector.rs,  *)
(* deinflect.rs).  A u64 tag mask is the set of its bit positions, so that *)
(* | is \cup, & is \cap, 0 is {} and u64::MAX is 0..63.  A String is the   *)
(* sequence of its UTF-8 bytes; a tag name is a string.  The order in      *)
(* which a HashSet or HashMap is iterated is not fixed by the code: it is  *)
(* an input, order = [tags |-> a sequence of all tag names, reversed |->   *)
(* whether the suffix map is iterated backwards].                          *)
(***************************************************************************)
DEPTH_LIMIT == 10

\* HashSet<String>::iter under an iteration order
iter(tag_set, order) == SelectSeq(order.tags, LAMBDA t : t \in tag_set)

\* the rules of the set with their transform_idx, in the order of the loops
\* over the transforms and their rules
rule_list(s) ==
    Concat([ti \in 1..Len(s.transforms) |->
               [ri \in 1..Len(s.transforms[ti].rules) |->
                   [transform_idx |-> ti - 1, rule |-> s.transforms[ti].rules[ri]]]], 1)

\* the tags in the order of the registration loop: of each rule the accept
\* tags, then the produce tags
tag_chain(s, order) ==
    Concat([i \in 1..Len(rule_list(s)) |->
               iter(rule_list(s)[i].rule.accept.tags, order)
               \o iter(rule_list(s)[i].rule.produce.tags, order)], 1)

\* faulty variant: the 65th tag is given the exhausted id 0
register_tag_NoOverflowCheck(st, tag) ==
    IF tag \in DOMAIN st.key_to_id THEN st
    ELSE [st EXCEPT !.key_to_id = @ @@ (tag :> st.next_leaf_id),
                    !.next_leaf_id = {k + 1 : k \in @} \cap U64_MAX]

\* the body of the registration loop for one tag; next_leaf_id <<= 1 loses
\* the bit shifted out of position 63
register_tag(st, tag) ==
    IF tag \in DOMAIN st.key_to_id THEN st
    ELSE IF st.next_leaf_id = {} THEN [st EXCEPT !.err = "too many tags"]
    ELSE [st EXCEPT !.key_to_id = @ @@ (tag :> st.next_leaf_id),
                    !.next_leaf_id = {k + 1 : k \in @} \cap U64_MAX]

\* the registration loop over the tags lo..hi of the chain, the first half
\* before the second; an error returns
RECURSIVE register_tags(_, _, _, _)
register_tags(chain, lo, hi, st) ==
    IF lo > hi \/ st.err # "" THEN st
    ELSE IF lo = hi THEN register_tag(st, chain[lo])
    ELSE With(register_tags(chain, lo, (lo + hi) \div 2, st),
              LAMBDA st2 : register_tags(chain, (lo + hi) \div 2 + 1, hi, st2))

\* fold(0, |a, b| a | b) over the ids of the tags, in iteration order
RECURSIVE fold_or(_, _, _, _)
fold_or(tag_seq, key_to_id, i, acc) ==
    IF i > Len(tag_seq) THEN acc
    ELSE fold_or(tag_seq, key_to_id, i + 1, acc \cup key_to_id[tag_seq[i]])

\* faulty variant: acc = key_to_id[tag] in place of acc |= key_to_id[tag]
accept_tags_LastTagOnly(rule, key_to_id, order) ==
    IF rule.accept.tags = {} THEN U64_MAX
    ELSE key_to_id[iter(rule.accept.tags, order)[Cardinality(rule.accept.tags)]]

accept_tags(rule, key_to_id, order) ==
    IF rule.accept.tags = {} THEN U64_MAX
    ELSE fold_or(iter(rule.accept.tags, order), key_to_id, 1, {})

\* the position of the entry of a suffix in the map, 0 when there is none
entry_of(suffix_map, suffix) ==
    IF \E i \in 1..Len(suffix_map) : suffix_map[i].suffix = suffix
    THEN CHOOSE i \in 1..Len(suffix_map) : suffix_map[i].suffix = suffix
    ELSE 0

\* suffix_map.entry(suffix).or_default().push(production)
entry_push(suffix_map, suffix, production) ==
    IF entry_of(suffix_map, suffix) = 0
    THEN Append(suffix_map, [suffix |-> suffix, productions |-> <<production>>])
    ELSE [suffix_map EXCEPT ![entry_of(suffix_map, suffix)].productions = Append(@, production)]

\* the production loop from the i-th rule on
RECURSIVE push_productions(_, _, _, _, _)
push_productions(rules, key_to_id, order, i, suffix_map) ==
    IF i > Len(rules) THEN suffix_map
    ELSE With(entry_push(suffix_map, rules[i].rule.accept.suffix,
                   [transform_idx |-> rules[i].transform_idx,
                    accept_tags |-> accept_tags(rules[i].rule, key_to_id, order),
                    produce_tags |-> fold_or(iter(rules[i].rule.produce.tags, order),
                                            key_to_id, 1, {}),
                    produce_suffix |-> rules[i].rule.produce.suffix]),
              LAMBDA m : push_productions(rules, key_to_id, order, i + 1, m))

\* the entries of the HashMap in its iteration order
hash_map(entries, order) ==
    IF order.reversed THEN [i \in 1..Len(entries) |-> entries[Len(entries) + 1 - i]]
    ELSE entries

\* faulty variant: the lengths stay in the iteration order of the HashSet
RECURSIVE sort_Unsorted(_)
sort_Unsorted(lengths) ==
    IF lengths = {} THEN <<>>
    ELSE With(CHOOSE x \in lengths : \A y \in lengths : x >= y,
              LAMBDA m : <<m>> \o sort_Unsorted(lengths \ {m}))

\* suffix_lengths.into_iter().collect() and sort()
RECURSIVE sort(_)
sort(lengths) ==
    IF lengths = {} THEN <<>>
    ELSE With(CHOOSE x \in lengths : \A y \in lengths : x <= y,
              LAMBDA m : <<m>> \o sort(lengths \ {m}))

\* Deinflector::make, and the part of convert_deinflector before the
\* encoding; key_to_id is kept in the result for the properties
make(s, order) ==
    With(register_tags(tag_chain(s, order), 1, Len(tag_chain(s, order)),
                       [err |-> "", key_to_id |-> <<>>, next_leaf_id |-> {0}]), LAMBDA st :
        IF st.err # ""
        THEN [ok |-> FALSE, err |-> st.err, key_to_id |-> st.key_to_id,
              value |-> EmptyDeinflector]
        ELSE [ok |-> TRUE, err |-> "", key_to_id |-> st.key_to_id,
              value |->
                [transform_meta |->
                    [ti \in 1..Len(s.transforms) |->
                        [name |-> s.transforms[ti].name, desc |-> s.transforms[ti].desc,
                         is_final |-> s.transforms[ti].is_final]],
                 suffix_map |-> hash_map(push_productions(rule_list(s), st.key_to_id,
                                                          order, 1, <<>>), order),
                 suffix_lengths |-> sort({Len(rule_list(s)[i].rule.accept.suffix) :
                                            i \in 1..Len(rule_list(s))})]])

\* str::from_utf8(..).is_ok(), from the i-th byte on: a lead byte with its
\* continuation bytes 0x80..0xBF, without overlong forms and surrogates
RECURSIVE utf8_from(_, _)
utf8_from(bytes, i) ==
    IF i > Len(bytes) THEN TRUE
    ELSE IF bytes[i] < 128 THEN utf8_from(bytes, i + 1)
    ELSE IF bytes[i] \in 194..223 THEN
        /\ i + 1 <= Len(bytes) /\ bytes[i + 1] \in 128..191
        /\ utf8_from(bytes, i + 2)
    ELSE IF bytes[i] \in 224..239 THEN
        /\ i + 2 <= Len(bytes) /\ bytes[i + 1] \in 128..191 /\ bytes[i + 2] \in 128..191
        /\ bytes[i] = 224 => bytes[i + 1] >= 160
        /\ bytes[i] = 237 => bytes[i + 1] <= 159
        /\ utf8_from(bytes, i + 3)
    ELSE IF bytes[i] \in 240..244 THEN
        /\ i + 3 <= Len(bytes) /\ bytes[i + 1] \in 128..191 /\ bytes[i + 2] \in 128..191
        /\ bytes[i + 3] \in 128..191
        /\ bytes[i] = 240 => bytes[i + 1] >= 144
        /\ bytes[i] = 244 => bytes[i + 1] <= 143
        /\ utf8_from(bytes, i + 4)
    ELSE FALSE

from_utf8(bytes) == utf8_from(bytes, 1)

\* self.suffix_map.get(key): the productions of the entry, none when absent
suffix_map_get(suffix_map, key) ==
    IF entry_of(suffix_map, key) = 0 THEN <<>>
    ELSE suffix_map[entry_of(suffix_map, key)].productions

RECURSIVE deinflect_recursive(_, _, _, _, _, _)
RECURSIVE for_lengths(_, _, _, _, _, _, _)
RECURSIVE for_productions(_, _, _, _, _, _, _, _, _)

\* faulty variant: the search goes on from the term of a final transform
apply_production_NoFinalCheck(self, term, rule_chain, tags, results, depth, suffix_idx, production) ==
    IF tags \cap production.accept_tags = {} THEN results
    ELSE IF ~from_utf8(SubSeq(term, 1, suffix_idx) \o production.produce_suffix) THEN results
    ELSE deinflect_recursive(self,
            SubSeq(term, 1, suffix_idx) \o production.produce_suffix,
            Append(rule_chain, production.transform_idx),
            production.produce_tags,
            Append(results, [term |-> SubSeq(term, 1, suffix_idx) \o production.produce_suffix,
                             rule_chain |-> Append(rule_chain, production.transform_idx)]),
            depth + 1)

\* the body of the loop over the productions of a suffix
apply_production(self, term, rule_chain, tags, results, depth, suffix_idx, production) ==
    IF tags \cap production.accept_tags = {} THEN results
    ELSE IF ~from_utf8(SubSeq(term, 1, suffix_idx) \o production.produce_suffix) THEN results
    ELSE IF self.transform_meta[production.transform_idx + 1].is_final
    THEN Append(results, [term |-> SubSeq(term, 1, suffix_idx) \o production.produce_suffix,
                          rule_chain |-> Append(rule_chain, production.transform_idx)])
    ELSE deinflect_recursive(self,
            SubSeq(term, 1, suffix_idx) \o production.produce_suffix,
            Append(rule_chain, production.transform_idx),
            production.produce_tags,
            Append(results, [term |-> SubSeq(term, 1, suffix_idx) \o production.produce_suffix,
                             rule_chain |-> Append(rule_chain, production.transform_idx)]),
            depth + 1)

\* for result in result, from the pi-th production on
for_productions(self, term, rule_chain, tags, results, depth, suffix_idx, productions, pi) ==
    IF pi > Len(productions) THEN results
    ELSE With(apply_production(self, term, rule_chain, tags, results, depth, suffix_idx,
                               productions[pi]),
              LAMBDA r : for_productions(self, term, rule_chain, tags, r, depth, suffix_idx,
                                         productions, pi + 1))

\* for &length in &self.suffix_lengths, from the li-th length on
for_lengths(self, term, rule_chain, tags, results, depth, li) ==
    IF li > Len(self.suffix_lengths) THEN results
    ELSE IF self.suffix_lengths[li] > Len(term) THEN results
    ELSE With(for_productions(self, term, rule_chain, tags, results, depth,
                  Len(term) - self.suffix_lengths[li],
                  suffix_map_get(self.suffix_map,
                      SubSeq(term, Len(term) - self.suffix_lengths[li] + 1, Len(term))),
                  1),
              LAMBDA r : for_lengths(self, term, rule_chain, tags, r, depth, li + 1))

deinflect_recursive(self, term, rule_chain, tags, results, depth) ==
    IF depth > DEPTH_LIMIT THEN results
    ELSE for_lengths(self, term, rule_chain, tags, results, depth, 1)

deinflect(self, term) ==
    deinflect_recursive(self, term, <<>>, U64_MAX, <<[term |-> term, rule_chain |-> <<>>]>>, 0)

\* faulty variant: the loop over the productions does not move on to the
\* next production when the tags of a production do not match
deinflect_step_NoAdvance(self, frame) ==
    IF frame.depth > DEPTH_LIMIT THEN [frames |-> <<>>, pushed |-> <<>>]
    ELSE IF frame.li > Len(self.suffix_lengths) THEN [frames |-> <<>>, pushed |-> <<>>]
    ELSE IF self.suffix_lengths[frame.li] > Len(frame.term)
    THEN [frames |-> <<>>, pushed |-> <<>>]
    ELSE
    With(Len(frame.term) - self.suffix_lengths[frame.li], LAMBDA suffix_idx :
    With(suffix_map_get(self.suffix_map, SubSeq(frame.term, suffix_idx + 1, Len(frame.term))),
         LAMBDA productions :
    IF frame.pi > Len(productions)
    THEN [frames |-> <<[frame EXCEPT !.li = @ + 1, !.pi = 1]>>, pushed |-> <<>>]
    ELSE
    With(productions[frame.pi], LAMBDA production :
    With(SubSeq(frame.term, 1, suffix_idx) \o production.produce_suffix, LAMBDA new_term :
    With([term |-> new_term,
          rule_chain |-> Append(frame.rule_chain, production.transform_idx)], LAMBDA pushed :
    IF frame.tags \cap production.accept_tags = {}
    THEN [frames |-> <<frame>>, pushed |-> <<>>]
    ELSE IF ~from_utf8(new_term)
    THEN [frames |-> <<[frame EXCEPT !.pi = @ + 1]>>, pushed |-> <<>>]
    ELSE IF self.transform_meta[production.transform_idx + 1].is_final
    THEN [frames |-> <<[frame EXCEPT !.pi = @ + 1]>>, pushed |-> <<pushed>>]
    ELSE [frames |-> <<[frame EXCEPT !.pi = @ + 1],
                       [term |-> new_term, rule_chain |-> pushed.rule_chain,
                        tags |-> production.produce_tags, depth |-> frame.depth + 1,
                        li |-> 1, pi |-> 1]>>,
          pushed |-> <<pushed>>])))))

\* one step of deinflect_recursive in its innermost running call.  A frame
\* holds the arguments of the call and where its two loops are: at the
\* li-th suffix length and the pi-th production of that suffix.  The step
\* returns (depth limit, end of the lengths, break), moves to the next
\* length, or runs the loop body for one production: continue, push a
\* result, call deinflect_recursive.  frames replaces the frame, pushed is
\* what is pushed to results
deinflect_step(self, frame) ==
    IF frame.depth > DEPTH_LIMIT THEN [frames |-> <<>>, pushed |-> <<>>]
    ELSE IF frame.li > Len(self.suffix_lengths) THEN [frames |-> <<>>, pushed |-> <<>>]
    ELSE IF self.suffix_lengths[frame.li] > Len(frame.term)
    THEN [frames |-> <<>>, pushed |-> <<>>]
    ELSE
    With(Len(frame.term) - self.suffix_lengths[frame.li], LAMBDA suffix_idx :
    With(suffix_map_get(self.suffix_map, SubSeq(frame.term, suffix_idx + 1, Len(frame.term))),
         LAMBDA productions :
    IF frame.pi > Len(productions)
    THEN [frames |-> <<[frame EXCEPT !.li = @ + 1, !.pi = 1]>>, pushed |-> <<>>]
    ELSE
    With(productions[frame.pi], LAMBDA production :
    With(SubSeq(frame.term, 1, suffix_idx) \o production.produce_suffix, LAMBDA new_term :
    With([term |-> new_term,
          rule_chain |-> Append(frame.rule_chain, production.transform_idx)], LAMBDA pushed :
    IF frame.tags \cap production.accept_tags = {}
    THEN [frames |-> <<[frame EXCEPT !.pi = @ + 1]>>, pushed |-> <<>>]
    ELSE IF ~from_utf8(new_term)
    THEN [frames |-> <<[frame EXCEPT !.pi = @ + 1]>>, pushed |-> <<>>]
    ELSE IF self.transform_meta[production.transform_idx + 1].is_final
    THEN [frames |-> <<[frame EXCEPT !.pi = @ + 1]>>, pushed |-> <<pushed>>]
    ELSE [frames |-> <<[frame EXCEPT !.pi = @ + 1],
                       [term |-> new_term, rule_chain |-> pushed.rule_chain,
                        tags |-> production.produce_tags, depth |-> frame.depth + 1,
                        li |-> 1, pi |-> 1]>>,
          pushed |-> <<pushed>>])))))

(***************************************************************************)
(* The deinflection path as a state machine: a transform set is compiled   *)
(* once, under some iteration order of its hashed collections, and the     *)
(* compiled deinflector is then queried with words.                        *)
(***************************************************************************)
MaxTags == 66

NotCompiled == [ok |-> FALSE, err |-> "none", key_to_id |-> <<>>, value |-> EmptyDeinflector]

DeinflectInit ==
    /\ transform_set = [dict_tags |-> <<>>, subtags |-> <<>>, transforms |-> <<>>]
    /\ hash_order = [tags |-> <<>>, reversed |-> FALSE]
    /\ compiled = NotCompiled
    /\ word = <<>>
    /\ deinflected = <<>>
    /\ call_stack = <<>>

\* a Rule from the suffix and tags of its accept and of its produce State
Rule(accept_suffix, accept_tag_set, produce_suffix, produce_tag_set) ==
    [accept |-> [suffix |-> accept_suffix, tags |-> accept_tag_set],
     produce |-> [suffix |-> produce_suffix, tags |-> produce_tag_set]]
Transform(name, is_final, rules) ==
    [name |-> name, desc |-> <<>>, is_final |-> is_final, rules |-> rules]

\* "った" -> "る" producing v1, then the final "る" -> "る" accepting v1
SimpleSet ==
    [dict_tags |-> <<>>, subtags |-> <<>>,
     transforms |-> <<
        Transform(<<112>>, FALSE,
            <<Rule(<<227, 129, 163, 227, 129, 159>>, {}, <<227, 130, 139>>, {"v1"})>>),
        Transform(<<102>>, TRUE,
            <<Rule(<<227, 130, 139>>, {"v1"}, <<227, 130, 139>>, {"v1-final"})>>)>>]

\* one non-final rule "a" -> "aa" that accepts any tags and produces the
\* given tags: it matches its own output
LoopSet(tags) ==
    [dict_tags |-> <<>>, subtags |-> <<>>,
     transforms |-> <<Transform(<<108>>, FALSE,
                         <<Rule(<<97>>, {}, <<97, 97>>, tags)>>)>>]

\* "a" -> "b" producing no tag, then "b" -> "c" accepting any tags
ChainSet ==
    [dict_tags |-> <<>>, subtags |-> <<>>,
     transforms |-> <<
        Transform(<<49>>, FALSE, <<Rule(<<97>>, {}, <<98>>, {})>>),
        Transform(<<50>>, FALSE, <<Rule(<<98>>, {}, <<99>>, {"u"})>>)>>]

\* suffixes of three lengths, two transforms sharing a suffix, a final one
OrderingSet ==
    [dict_tags |-> <<>>, subtags |-> <<>>,
     transforms |-> <<
        Transform(<<48>>, FALSE,
            <<Rule(<<98>>, {}, <<99>>, {"p"}),
              Rule(<<97, 98>>, {}, <<100>>, {"q"})>>),
        Transform(<<49>>, FALSE,
            <<Rule(<<99>>, {"p", "q"}, <<101>>, {}),
              Rule(<<98>>, {}, <<97, 99>>, {"q"})>>),
        Transform(<<50>>, TRUE,
            <<Rule(<<99>>, {"q"}, <<102>>, {"p"}),
              Rule(<<>>, {"p"}, <<98>>, {})>>)>>]

\* A has the subtags x and y: "a" -> "b" produces x, "b" -> "c" accepts A,
\* "c" -> "d" accepts the sibling x of the produced y
SubtagSet ==
    [dict_tags |-> <<>>, subtags |-> [A |-> {"x", "y"}],
     transforms |-> <<
        Transform(<<49>>, FALSE, <<Rule(<<97>>, {}, <<98>>, {"x"})>>),
        Transform(<<50>>, FALSE, <<Rule(<<98>>, {"A"}, <<99>>, {"y"})>>),
        Transform(<<51>>, FALSE, <<Rule(<<99>>, {"x"}, <<100>>, {})>>)>>]

\* the n distinct tag names "1" .. "n" over two rules that share one name
ManyTagSet(n) ==
    [dict_tags |-> <<>>, subtags |-> <<>>,
     transforms |-> <<
        Transform(<<109>>, FALSE,
            <<Rule(<<97>>, {ToString(k) : k \in 1..(n \div 2)},
                   <<98>>, {ToString(k) : k \in (n \div 2)..(n - 1)}),
              Rule(<<98>>, {ToString(n)}, <<99>>, {})>>)>>]

\* one non-final rule "" -> "" that accepts any tags: it matches every term
\* and rewrites it to itself
IdentitySet ==
    [dict_tags |-> <<>>, subtags |-> <<>>,
     transforms |-> <<Transform(<<105>>, FALSE, <<Rule(<<>>, {}, <<>>, {"t"})>>)>>]

TransformSets ==
    {SimpleSet, LoopSet({"t"}), LoopSet({}), ChainSet, OrderingSet, SubtagSet, IdentitySet}
    \cup {ManyTagSet(n) : n \in 62..MaxTags}

\* the tag names of a transform set
tags_of(s) ==
    UNION {rule_list(s)[i].rule.accept.tags \cup rule_list(s)[i].rule.produce.tags :
              i \in 1..Len(rule_list(s))}

\* the iteration orders of the hashed collections: the tag names in every
\* order when there are up to three, in numeric order and its reverse when
\* there are more; the suffix map forwards or backwards
HashOrders(s) ==
    {[tags |-> t, reversed |-> r] :
        t \in (IF Cardinality(tags_of(s)) <= 3
               THEN {p \in [1..Cardinality(tags_of(s)) -> tags_of(s)] :
                        \A i, j \in DOMAIN p : p[i] = p[j] => i = j}
               ELSE {[k \in 1..Cardinality(tags_of(s)) |-> ToString(k)],
                     [k \in 1..Cardinality(tags_of(s)) |->
                         ToString(Cardinality(tags_of(s)) + 1 - k)]}),
        r \in BOOLEAN}

\* "", "a", "b", "xa", "ab", "xab", "走った"
Words ==
    {<<>>, <<97>>, <<98>>, <<120, 97>>, <<97, 98>>, <<120, 97, 98>>,
     <<232, 181, 176, 227, 129, 163, 227, 129, 159>>}

\* Deinflector::make(s)
Make ==
    /\ compiled = NotCompiled
    /\ \E s \in TransformSets : \E order \in HashOrders(s) :
          /\ transform_set' = s
          /\ hash_order' = order
          /\ compiled' = make(s, order)
    /\ UNCHANGED <<word, deinflected, call_stack>>
    /\ UNCHANGED <<build_vars, container_vars>>

\* deinflector.deinflect(term)
Deinflect ==
    /\ compiled.ok
    /\ \E term \in Words :
          /\ word' = term
          /\ deinflected' = deinflect(compiled.value, term)
    /\ UNCHANGED <<transform_set, hash_order, compiled, call_stack>>
    /\ UNCHANGED <<build_vars, container_vars>>

DeinflectNext ==
    \/ Make
    \/ Deinflect

\* deinflector.deinflect(term) is called: the term is pushed to results and
\* deinflect_recursive is entered
DeinflectCall ==
    /\ compiled.ok
    /\ call_stack = <<>>
    /\ \E term \in Words :
          /\ word' = term
          /\ deinflected' = <<[term |-> term, rule_chain |-> <<>>]>>
          /\ call_stack' = <<[term |-> term, rule_chain |-> <<>>, tags |-> U64_MAX,
                              depth |-> 0, li |-> 1, pi |-> 1]>>
    /\ UNCHANGED <<transform_set, hash_order, compiled>>
    /\ UNCHANGED <<build_vars, container_vars>>

\* the innermost running call of deinflect_recursive takes one step
DeinflectStep ==
    /\ call_stack # <<>>
    /\ \E r \in {deinflect_step(compiled.value, call_stack[Len(call_stack)])} :
          /\ call_stack' = SubSeq(call_stack, 1, Len(call_stack) - 1) \o r.frames
          /\ deinflected' = deinflected \o r.pushed
    /\ UNCHANGED <<transform_set, hash_order, compiled, word>>
    /\ UNCHANGED <<build_vars, container_vars>>

DeinflectStepsNext ==
    \/ Make
    \/ DeinflectCall
    \/ DeinflectStep

(***************************************************************************)
(* Properties of the store and of the index.                               *)
(***************************************************************************)
\* the offsets returned for the insertions of (data_type, key) among the
\* insertions lo..hi, in build order
RECURSIVE InsertedOffsetsIn(_, _, _, _)
InsertedOffsetsIn(data_type, key, lo, hi) ==
    IF lo > hi THEN <<>>
    ELSE IF lo = hi
    THEN IF log[lo].kind = data_type /\ log[lo].key = key
         THEN <<log[lo].offset>> ELSE <<>>
    ELSE LET mid == (lo + hi) \div 2 IN
         InsertedOffsetsIn(data_type, key, lo, mid)
            \o InsertedOffsetsIn(data_type, key, mid + 1, hi)

InsertedOffsets(data_type, key) == InsertedOffsetsIn(data_type, key, 1, Len(log))

InsertedKeys(data_type) == {log[i].key : i \in {j \in 1..Len(log) : log[j].kind = data_type}}

\* the sum of the encoded lengths of the insertions lo..hi
RECURSIVE EncodedLength(_, _)
EncodedLength(lo, hi) ==
    IF lo > hi THEN 0
    ELSE IF lo = hi THEN Len(encode_to_vec(log[lo].item))
    ELSE LET mid == (lo + hi) \div 2 IN
         EncodedLength(lo, mid) + EncodedLength(mid + 1, hi)

\* C1: in an open package, lookup(kind, key) is the sequence of the offsets
\* returned for the insertions of (kind, key), in insertion order, for every
\* number of insertions.
C1_LookupInsertionOrder ==
    phase = "open" =>
        \A data_type \in DataType, key \in KeyStrings :
            lookup(index_fst, data_type, key) = InsertedOffsets(data_type, key)

C3_PreAppendOffsets ==
    /\ \A i \in 1..Len(log) : log[i].offset = EncodedLength(1, i - 1)
    /\ \A i \in 1..(Len(log) - 1) : log[i].offset < log[i + 1].offset

C3_Witness ==
    /\ Len(log) = 3
    /\ log[1].offset = 0
    /\ log[2].offset = 2
    /\ log[3].offset = 6
    /\ pending = <<>>

\* C4: in an open package, keys(kind) holds exactly the keys inserted under
\* that kind, in strictly ascending byte-lexicographic order (so each once).
C4_KeysSortedDistinct ==
    phase = "open" =>
        \A data_type \in DataType :
            LET ks == keys(index_fst, data_type) IN
            /\ Range(ks) = InsertedKeys(data_type)
            /\ \A i \in 1..(Len(ks) - 1) : LexLess(ks[i], ks[i + 1])

C4_Witness ==
    /\ phase = "open"
    /\ result.op = "keys" /\ result.kind = Term
    /\ result.keys = <<(<<97>>), (<<97, 98>>)>>
    /\ Len(log) = 3
    /\ log[1].kind = Term /\ log[1].key = <<97, 98>>
    /\ Len(InsertedOffsets(Term, <<97>>)) = 2

\* C5: in an open package, every offset of lookup(kind, key) was returned
\* for an insertion of that key under that kind.
C5_KindIsolation ==
    phase = "open" =>
        \A data_type \in DataType, key \in KeyStrings :
            Range(lookup(index_fst, data_type, key))
                \subseteq Range(InsertedOffsets(data_type, key))

C5_Witness ==
    /\ phase = "open"
    /\ result.op = "lookup" /\ result.kind = Term /\ result.key = <<97>>
    /\ Len(result.ids) = 1
    /\ InsertedOffsets(Kanji, <<97>>) # <<>>
    /\ InsertedOffsets(Term, <<97, 98>>) # <<>>
    /\ result.ids = InsertedOffsets(Term, <<97>>)

(***************************************************************************)
(* Properties of the container.                                            *)
(***************************************************************************)
\* the payload region of the file as the last read saw it
PayloadRegion == SubSeq(disk_file, outcome.payload_offset + 1, Len(disk_file))

\* C6: reading the file that write_container wrote yields the written name,
\* revision_name, revision, role, payload_length and payload_sha256, a
\* payload_offset of 14 plus the length of the header JSON, the written
\* payload from that offset on, and validate_payload accepts.
C6_ContainerRoundTrip ==
    (outcome.op = "read" /\ written.by = "write_container" /\ tamper = "none") =>
        /\ outcome.ok
        /\ outcome.header.meta = written.header.meta
        /\ outcome.header.role = written.header.role
        /\ outcome.header.payload_length = Len(written.data)
        /\ outcome.header.payload_sha256 = Sha256(written.data)
        /\ outcome.payload_offset = 14 + written.json_len
        /\ PayloadRegion = written.data
        /\ validate_payload([header |-> outcome.header,
                             payload_offset |-> outcome.payload_offset], disk_file) = "Ok"

C6_Witness ==
    /\ outcome.op = "read" /\ written.by = "write_container" /\ tamper = "none"
    /\ outcome.ok
    /\ outcome.header.meta.name = <<74, 34>>
    /\ outcome.header.role = RoleDeinflector
    /\ PayloadRegion = EncodeDeinflector(OneRuleDeinflector)

\* C7: validate_payload accepts exactly when the payload region has the
\* length and the hash of the header; a changed payload byte of a written
\* file is a hash mismatch, a truncated or extended payload a length mismatch.
C7_ValidatePayload ==
    outcome.op = "validate" =>
        /\ outcome.validation = "Ok"
             <=> (/\ Len(PayloadRegion) = outcome.header.payload_length
                  /\ Sha256(PayloadRegion) = outcome.header.payload_sha256)
        /\ Len(PayloadRegion) # outcome.header.payload_length
             => outcome.validation = "LengthMismatch"
        /\ (/\ Len(PayloadRegion) = outcome.header.payload_length
            /\ Sha256(PayloadRegion) # outcome.header.payload_sha256)
             => outcome.validation = "HashMismatch"
        /\ (written.by = "write_container" /\ tamper = "flip")
             => outcome.validation = "HashMismatch"
        /\ (written.by = "write_container" /\ tamper \in {"truncate", "append"})
             => outcome.validation = "LengthMismatch"

C7_Witness ==
    /\ outcome.op = "validate"
    /\ written.by = "write_container" /\ tamper = "append"
    /\ outcome.validation = "LengthMismatch"

\* C8: a container opened successfully with verify = true has a payload
\* that validate_payload accepts.
C8_VerifiedOpenValidates ==
    (outcome.op = "open" /\ outcome.verify /\ outcome.ok) =>
        validate_payload(read_container(disk_file), disk_file) = "Ok"

\* C9: an open of a container with min_role_version = 0 succeeds only if
\* the allow flag was true at that open, and the flag is false until
\* allow_dev_version is called.
C9_DevVersionGate ==
    /\ (outcome.op = "open" /\ outcome.ok /\ outcome.header.min_role_version = 0)
          => outcome.allowed
    /\ ~allow_called => ~ALLOW_DEV_VERSION
    /\ ~allow_called => ~(outcome.op = "open" /\ outcome.ok)

C9_Witness ==
    /\ outcome.op = "open" /\ outcome.ok /\ outcome.header.min_role_version = 0
    /\ outcome.allowed
    /\ ~ALLOW_DEV_VERSION

\* C10: an open of a container whose role is not the expected one, or whose
\* min_role_version is above the role's version, fails without calling load.
C10_RoleAndVersionChecked ==
    (/\ outcome.op = "open" /\ outcome.read_ok
     /\ \/ outcome.header.role # role(outcome.T)
        \/ outcome.header.min_role_version > role_version(outcome.T))
        => ~outcome.ok /\ ~outcome.load_called

C10_Witness ==
    /\ outcome.op = "open" /\ outcome.read_ok
    /\ outcome.T = "Dictionary" /\ outcome.header.role = RoleDeinflector
    /\ outcome.allowed /\ outcome.header.min_role_version = 0
    /\ written.by = "write_container"
    /\ ~outcome.ok /\ ~outcome.load_called

\* C11 as stated: reading a file whose first 9 bytes are not "TOMOCHAN:"
\* fails with an invalid-magic error, and the header JSON is not parsed.
C11_EveryOtherPrefixIsInvalidMagic ==
    (/\ outcome.op = "read"
     /\ Len(disk_file) >= Len(MAGIC_PREFIX)
     /\ SubSeq(disk_file, 1, Len(MAGIC_PREFIX)) # MAGIC_PREFIX)
        => /\ ~outcome.ok
           /\ outcome.err \in {"InvalidMagicPrefix", "NotRecognized"}
           /\ ~outcome.json_parsed

\* C11: reading a file of at least 14 bytes whose first 9 bytes are not
\* "TOMOCHAN:" fails with an invalid-magic error, and reading any file
\* whose first 9 bytes are not "TOMOCHAN:" fails (a file that ends inside
\* the magic with an end-of-file error) without parsing the header JSON.
C11_OtherPrefixRejected ==
    (/\ outcome.op = "read"
     /\ Len(disk_file) >= Len(MAGIC_PREFIX)
     /\ SubSeq(disk_file, 1, Len(MAGIC_PREFIX)) # MAGIC_PREFIX)
        => /\ ~outcome.ok
           /\ ~outcome.json_parsed
           /\ Len(disk_file) >= MAGIC_LEN
                => outcome.err \in {"InvalidMagicPrefix", "NotRecognized"}
           /\ Len(disk_file) < MAGIC_LEN => outcome.err = "UnexpectedEof"

C11_Witness ==
    /\ outcome.op = "read"
    /\ SubSeq(disk_file, 1, 14) = <<84, 79, 77, 79, 68, 73, 67, 84, 58, 48, 48, 48, 48, 58>>
    /\ Len(disk_file) > 14
    /\ outcome.err = "NotRecognized" /\ ~outcome.json_parsed

\* C12: reading a file whose magic is "TOMOCHAN:", the four hex digits of an
\* envelope version v and ":" fails for its version exactly when v is below
\* the minimum compatible envelope version; otherwise the header is parsed.
C12_VersionRejectedIffBelowMinimum ==
    (outcome.op = "read" /\ written.by = "foreign_version") =>
        /\ outcome.err \in {"InvalidVersion", "IncompatibleVersion"}
             <=> written.version < MIN_COMPATIBLE_HEADER_VERSION
        /\ written.version >= MIN_COMPATIBLE_HEADER_VERSION => outcome.json_parsed

(***************************************************************************)
(* Properties of the deinflector.                                          *)
(***************************************************************************)
\* deinflect has been called on the compiled transform set
Deinflected == compiled.ok /\ deinflected # <<>>

\* the last transform of a result's rule chain is final
EndsFinal(r) ==
    r.rule_chain # <<>>
    /\ transform_set.transforms[r.rule_chain[Len(r.rule_chain)] + 1].is_final

\* C13: the first result of deinflect(w) is {term: w, rule_chain: []}, every
\* other result has a non-empty rule_chain, and no rule_chain is longer than
\* 10
C13_SeedFirstChainsAtMostTen ==
    Deinflected =>
        /\ deinflected[1] = [term |-> word, rule_chain |-> <<>>]
        /\ \A i \in 2..Len(deinflected) : deinflected[i].rule_chain # <<>>
        /\ \A i \in 1..Len(deinflected) : Len(deinflected[i].rule_chain) <= DEPTH_LIMIT

\* C14: for the transform set of one non-final rule that rewrites "xa" to
\* "xaa" and accepts any tags, deinflect("xa") returns exactly 11 results,
\* the seed and 10 rewrites
C14_DepthLimitElevenResults ==
    (Deinflected /\ transform_set \in {LoopSet({"t"}), LoopSet({})} /\ word = <<120, 97>>)
        => Len(deinflected) = DEPTH_LIMIT + 1

IsSuffix(suffix, term) ==
    Len(suffix) <= Len(term)
    /\ SubSeq(term, Len(term) - Len(suffix) + 1, Len(term)) = suffix

\* C15: a rule with an empty accept tag set is applied wherever its suffix
\* matches a term the search continues from (the word, or a result of a
\* non-final transform within the depth limit), whatever tags the term
\* carries: the rewritten term is among the results
C15_AcceptAnyAlwaysApplies ==
    Deinflected =>
        \A i \in 1..Len(deinflected) : \A j \in 1..Len(rule_list(transform_set)) :
            ( /\ rule_list(transform_set)[j].rule.accept.tags = {}
              /\ IsSuffix(rule_list(transform_set)[j].rule.accept.suffix, deinflected[i].term)
              /\ Len(deinflected[i].rule_chain) <= DEPTH_LIMIT
              /\ ~EndsFinal(deinflected[i]) )
            => \E k \in 1..Len(deinflected) :
                 deinflected[k] =
                   [term |-> SubSeq(deinflected[i].term, 1,
                                 Len(deinflected[i].term)
                                 - Len(rule_list(transform_set)[j].rule.accept.suffix))
                             \o rule_list(transform_set)[j].rule.produce.suffix,
                    rule_chain |-> Append(deinflected[i].rule_chain,
                                          rule_list(transform_set)[j].transform_idx)]

\* C16: in every result of deinflect, the index of a final transform can
\* only be the last element of the rule chain
C16_FinalOnlyLast ==
    Deinflected =>
        \A i \in 1..Len(deinflected) : \A k \in 1..(Len(deinflected[i].rule_chain) - 1) :
            ~compiled.value.transform_meta[deinflected[i].rule_chain[k] + 1].is_final

\* a result that ends with the final transform after a non-final one, in a
\* set where a rule matches the term of the final transform
C16_Witness ==
    /\ Deinflected
    /\ transform_set = OrderingSet
    /\ \E i \in 1..Len(deinflected) :
          /\ Len(deinflected[i].rule_chain) = 2
          /\ EndsFinal(deinflected[i])
          /\ \E j \in 1..Len(rule_list(transform_set)) :
                IsSuffix(rule_list(transform_set)[j].rule.accept.suffix, deinflected[i].term)

\* C17: the results of deinflect are the same sequence under every order in
\* which the tag names are enumerated when the set is compiled and every
\* iteration order of the suffix map
C17_Deterministic ==
    Deinflected =>
        \A order \in HashOrders(transform_set) :
            /\ make(transform_set, order).ok
            /\ deinflect(make(transform_set, order).value, word) = deinflected

\* a rule that accepts two tags, compiled with the names enumerated "q"
\* first and the map iterated backwards, and a word with nine results
C17_Witness ==
    /\ Deinflected
    /\ transform_set = OrderingSet
    /\ hash_order = [tags |-> <<"q", "p">>, reversed |-> TRUE]
    /\ Len(deinflected) = 9

\* the rules that rewrite a term, by suffix length and then in rule order;
\* a rule accepts by tag names: the word carries every tag (any), a
\* rewritten term the tags its rule produced
Candidates(s, term, any, names) ==
    Concat([n \in 1..(Len(term) + 1) |->
               SelectSeq(rule_list(s), LAMBDA e :
                   /\ Len(e.rule.accept.suffix) = n - 1
                   /\ IsSuffix(e.rule.accept.suffix, term)
                   /\ \/ any
                      \/ e.rule.accept.tags = {} /\ names # {}
                      \/ names \cap e.rule.accept.tags # {})], 1)

Rewrite(term, rule) ==
    SubSeq(term, 1, Len(term) - Len(rule.accept.suffix)) \o rule.produce.suffix

\* the results below a term in depth-first discovery order: for each
\* candidate in turn, its result and then everything derived from it
RECURSIVE Discovery(_, _, _, _, _, _)
Discovery(s, term, any, names, rule_chain, depth) ==
    IF depth > DEPTH_LIMIT THEN <<>>
    ELSE Concat([c \in 1..Len(Candidates(s, term, any, names)) |->
            With(Candidates(s, term, any, names)[c], LAMBDA e :
                <<[term |-> Rewrite(term, e.rule),
                   rule_chain |-> Append(rule_chain, e.transform_idx)]>>
                \o (IF s.transforms[e.transform_idx + 1].is_final THEN <<>>
                    ELSE Discovery(s, Rewrite(term, e.rule), FALSE, e.rule.produce.tags,
                                   Append(rule_chain, e.transform_idx), depth + 1)))], 1)

\* C18: deinflect returns its results in depth-first discovery order:
\* at each term the matching suffixes from the shortest to the longest, the
\* productions of one suffix in rule order, and everything derived from a
\* production before the next production of the same level
C18_DiscoveryOrder ==
    Deinflected =>
        deinflected = <<[term |-> word, rule_chain |-> <<>>]>>
                      \o Discovery(transform_set, word, TRUE, {}, <<>>, 0)

\* "ab" matches suffixes of the lengths 0, 1 and 2, and "b" has productions
\* of two transforms
C18_Witness ==
    /\ Deinflected
    /\ transform_set = OrderingSet
    /\ word = <<97, 98>>
    /\ compiled.value.suffix_lengths = <<0, 1, 2>>
    /\ Len(suffix_map_get(compiled.value.suffix_map, <<98>>)) = 2
    /\ Len(deinflected) = 9

\* C19: make gives every tag name of the rules a mask of one bit 0..63, no
\* two names the same mask; it succeeds for up to 64 names and fails with
\* "too many tags" for 65 or more
C19_TagBitsInjective ==
    compiled # NotCompiled =>
        /\ compiled.ok <=> Cardinality(tags_of(transform_set)) <= 64
        /\ compiled.ok => DOMAIN compiled.key_to_id = tags_of(transform_set)
        /\ ~compiled.ok => compiled.err = "too many tags"
        /\ \A t \in DOMAIN compiled.key_to_id :
              \E k \in U64_MAX : compiled.key_to_id[t] = {k}
        /\ \A t, u \in DOMAIN compiled.key_to_id :
              compiled.key_to_id[t] = compiled.key_to_id[u] => t = u

\* a set of exactly 64 tag names compiles, the last name on bit 63
C19_Witness ==
    /\ compiled.ok
    /\ Cardinality(DOMAIN compiled.key_to_id) = 64
    /\ \E t \in DOMAIN compiled.key_to_id : compiled.key_to_id[t] = {63}

\* the production compiled from the ri-th rule of the ti-th transform
ProductionOf(self, s, j) ==
    CHOOSE production \in Range(suffix_map_get(self.suffix_map,
                                               rule_list(s)[j].rule.accept.suffix)) :
        /\ production.transform_idx = rule_list(s)[j].transform_idx
        /\ production.produce_suffix = rule_list(s)[j].rule.produce.suffix

\* C20: for a transform set with subtags, make fails, or the accept mask of
\* a rule that accepts a parent tag contains the bit of every subtag of the
\* parent, and a rule that accepts a subtag does not accept its siblings
C20_SubtagsNotLost ==
    (compiled # NotCompiled /\ DOMAIN transform_set.subtags # {}) =>
        \/ ~compiled.ok
        \/ \A j \in 1..Len(rule_list(transform_set)) :
             \A parent \in DOMAIN transform_set.subtags :
               \A x \in transform_set.subtags[parent] \cap DOMAIN compiled.key_to_id :
                 /\ parent \in rule_list(transform_set)[j].rule.accept.tags
                      => compiled.key_to_id[x]
                           \subseteq ProductionOf(compiled.value, transform_set, j).accept_tags
                 /\ \A y \in (transform_set.subtags[parent] \ {x}) :
                      (/\ y \in rule_list(transform_set)[j].rule.accept.tags
                       /\ x \notin rule_list(transform_set)[j].rule.accept.tags
                       /\ parent \notin rule_list(transform_set)[j].rule.accept.tags)
                      => compiled.key_to_id[x]
                           \cap ProductionOf(compiled.value, transform_set, j).accept_tags = {}

\* the {fst_len, store_len} header of the dictionary payload of the file, the
\* position after it, and whether the position and the two lengths add up
\* to the length of the file (as numbers, not as u64)
LoadedHeader ==
    LET payload_offset == read_container(disk_file).payload_offset
        fst_len == DecodeVarint(disk_file, payload_offset + 1)
        store_len == DecodeVarint(disk_file, fst_len.pos)
    IN [decoded |-> fst_len.ok /\ store_len.ok,
        fst_len |-> fst_len, store_len |-> store_len,
        exact |-> /\ fst_len.ok /\ store_len.ok
                  /\ fst_len.val < Huge /\ store_len.val < Huge
                  /\ (store_len.pos - 1) + fst_len.val + store_len.val = Len(disk_file)]

DictionaryLoaded ==
    outcome.op = "open" /\ outcome.T = "Dictionary" /\ outcome.load_called

\* C21: Dictionary::load succeeds only if the position after the decoded
\* {fst_len, store_len} header plus fst_len plus store_len equals the length
\* of the file; a file that is shorter or longer is rejected with the file
\* length error, and no dictionary is returned.
C21_LoadOnlyExactLength ==
    (DictionaryLoaded /\ LoadedHeader.decoded)
        => /\ outcome.ok => LoadedHeader.exact
           /\ ~LoadedHeader.exact => ~outcome.ok /\ outcome.err = "FileLength"

\* C29: header values whose u64 sum with the position after the header wraps
\* around to the length of the file, while the true sum differs from it, are
\* rejected with an error.
C29_WrappingSumRejected ==
    (/\ DictionaryLoaded /\ LoadedHeader.decoded /\ ~LoadedHeader.exact
     /\ overflowing_add(overflowing_add(to_le_bytes(LoadedHeader.store_len.pos - 1),
                                         LoadedHeader.fst_len.le, 1, 0).le,
                         LoadedHeader.store_len.le, 1, 0).le = to_le_bytes(Len(disk_file)))
        => ~outcome.ok /\ outcome.err \notin {"", "Panic"}

\* C22: after a build, every value stored in the index is an offset that
\* insert returned during the build: it lies in [0, length of the
\* uncompressed stream of the store), exactly one inserted record begins at
\* it, and that record was inserted under the kind of the entry.
C22_IndexedOffsetsAreRecordStarts ==
    phase \in {"saved", "open"} =>
        \A e \in 1..Len(package.fst) :
            LET value == package.fst[e].value
                starts == {i \in 1..Len(log) : log[i].offset = value}
            IN /\ 0 <= value /\ value < Len(builder_store.buffer)
               /\ Cardinality(starts) = 1
               /\ \A i \in starts :
                     /\ value = EncodedLength(1, i - 1)
                     /\ package.fst[e].key[1] = as_byte(log[i].kind)
                     /\ SubSeq(builder_store.buffer, value + 1,
                                value + Len(encode_to_vec(log[i].item)))
                            = encode_to_vec(log[i].item)

C22_Witness ==
    /\ phase = "saved"
    /\ Len(package.fst) = 3
    /\ package.fst[1].key[1] = as_byte(Term)
    /\ package.fst[3].key[1] = as_byte(Kanji)
    /\ package.fst[1].value > package.fst[2].value
    /\ package.fst[3].value = 0

\* C23: the composite key of the i-th insertion of a key under a kind is the
\* kind byte, the key bytes, a 0 byte and i as 4 big-endian bytes, and the
\* composite keys of the insertions of one key under one kind ascend with i
\* in byte-lexicographic order, for every i.  (Checked for the latest
\* insertion of each key against all earlier ones, in every state.)
C23_CompositeKeyLayoutAndOrder ==
    \A data_type \in DataType, key \in KeyStrings :
        LET m == Len(builder_keys[data_type][key]) IN
        \A i \in 0..(m - 1) :
            /\ i = m - 1 =>
                  make_composite_key(data_type, key, i)
                     = <<as_byte(data_type)>> \o key \o <<0>>
                       \o [b \in 1..4 |-> (i \div (256 ^ (4 - b))) % 256]
            /\ i < m - 1 =>
                  LexLess(make_composite_key(data_type, key, i),
                          make_composite_key(data_type, key, m - 1))

C30_GetDependsOnContentsAndOffset ==
    (phase = "open" /\ result.op = "get") =>
        /\ index_store.stream = package.data.stream
        /\ With(get([stream |-> package.data.stream, pos |-> 0], result.offset), LAMBDA r :
                 /\ result.ok = r.ok
                 /\ result.item = r.item
                 /\ \A offset \in 0..(Len(index_store.stream) + 1) :
                       With(get(index_store, offset), LAMBDA later :
                       With(get([stream |-> package.data.stream, pos |-> 0], offset), LAMBDA first :
                            later.ok = first.ok /\ later.item = first.item)))

\* a get of the first record after the decoder was left behind it
C30_Witness ==
    /\ phase = "open"
    /\ result.op = "get" /\ result.ok
    /\ Len(log) = 3
    /\ result.offset = 0
    /\ result.item = log[1].item
    /\ log[1].item # log[2].item
    /\ index_store.pos = log[2].offset

\* C28: a full lookup returns one decoded record per offset of
\* lookup(kind, key), in the same order; a fetch that fails is reported and
\* no record is silently left out.
C28_FullLookupOneRecordPerOffset ==
    (phase = "open" /\ result.op = "lookup_full" /\ result.ok) =>
        With(lookup(index_fst, result.kind, result.key), LAMBDA ids :
             /\ Len(result.items) = Len(ids)
             /\ \A j \in 1..Len(ids) :
                   With(get(index_store, ids[j]), LAMBDA r :
                        r.ok /\ r.item = result.items[j]))

\* C26: deinflect terminates: every call that has been entered returns, for
\* every compiled transform set and every word, rules that match their own
\* output, identity rules and rules with an empty accept suffix included.
C26_DeinflectTerminates == (call_stack # <<>>) ~> (call_stack = <<>>)

\* a call has returned after its recursion ran into the depth limit on a
\* rule with an empty accept suffix that rewrites every term to itself, with
\* the results of deinflect
C26_Witness ==
    /\ call_stack = <<>>
    /\ compiled.ok
    /\ transform_set = IdentitySet
    /\ word = <<97>>
    /\ Len(deinflected) > DEPTH_LIMIT
    /\ deinflected[Len(deinflected)].term = word
    /\ deinflected = deinflect(compiled.value, word)

\* C25: union_unique_term_count over a list of indexes is the number of
\* distinct keys inserted as terms into at least one of the indexes: a key of
\* several indexes, or inserted several times into one, counts once, and keys
\* of other kinds do not count.
C25_UnionCountsDistinctTermKeys ==
    result.op = "union" =>
        result.count =
            Cardinality({k \in KeyStrings :
                            \E n \in 1..Len(result.mappings) :
                                result.mappings[n][Term][k] # <<>>})

\* two indexes share the term "a", one of them holds it twice, "ab" is a
\* kanji of one and a term of none
C25_Witness ==
    /\ result.op = "union"
    /\ Len(result.mappings) = 2
    /\ Len(result.mappings[1][Term][<<97>>]) = 2
    /\ Len(result.mappings[2][Term][<<97>>]) = 1
    /\ result.mappings[2][Term][<<>>] # <<>>
    /\ result.mappings[1][Kanji][<<97, 98>>] # <<>>
    /\ \A n \in 1..2 : result.mappings[n][Term][<<97, 98>>] = <<>>
    /\ result.count = 2

\* C27: finalize of the store returns Ok only with a complete compressed
\* blob: a package is saved only if the compression stream of its store was
\* closed and holds the whole buffer of the builder; if closing fails, the
\* build aborts.
C27_SavedStoreIsComplete ==
    phase = "saved" => package.data.finished /\ package.data.stream = builder_store.buffer

(***************************************************************************)
(* Specifications.                                                         *)
(***************************************************************************)
vars == <<build_vars, container_vars, deinflect_vars>>

BuildNext ==
    \/ ImportDictionary
    \/ ImportItem
    \/ FinalizeToSingleFile
    \/ OpenPackage
    \/ LookupIds
    \/ Keys
    \/ GetRecord

\* the build and query path of a package
QueryNext ==
    \/ ImportDictionary
    \/ ImportItem
    \/ FinalizeToSingleFile
    \/ OpenPackage
    \/ OpenStalePackage
    \/ LookupFull

Init == BuildInit /\ ContainerInit /\ DeinflectInit
Next == BuildNext
Spec == Init /\ [][Next]_vars

\* the container path
SpecContainer == Init /\ [][ContainerNext]_vars

\* the deinflection path
SpecDeinflect == Init /\ [][DeinflectNext]_vars

\* build, open of the package or of a package with a stale store, full lookups
SpecQuery == Init /\ [][QueryNext]_vars

\* compile and deinflection step by step; a call that has been entered runs
\* on: the program is sequential and nothing else is scheduled
SpecDeinflectSteps == Init /\ [][DeinflectStepsNext]_vars /\ WF_vars(DeinflectStep)

\* one count over the union of up to MaxIndexes indexes
SpecUnion == Init /\ [][UnionUniqueTerms]_vars
====
